---- MODULE Spec2Model ----
(***************************************************************************)
(* The fleet daemon of aws-plugin-slurm-hibernate (src/fleet_daemon.py).   *)
(*                                                                         *)
(* One daemon invocation reads the scheduler's node table once, then for   *)
(* every nodegroup takes the nodegroup's file lock, enumerates the         *)
(* nodegroup's instances and spot requests, runs process_fleet_nodes over  *)
(* the nodes, cleans up orphans, leaves the lock and runs the transplant   *)
(* loop.  Several invocations may run at once (the daemon is cron driven). *)
(*                                                                         *)
(* Identifiers: instance ids and spot request ids are positive integers,   *)
(* 0 is the empty string / None.  An instance's private address is a       *)
(* positive integer as well.                                               *)
(***************************************************************************)
EXTENDS Integers, Sequences, FiniteSets, TLC

VARIABLES
    sched,   \* the scheduler's node table: node name -> node record
    inst,    \* the provider's instances: id -> instance record
    spot,    \* the provider's spot requests: id -> request record
    lock,    \* nodegroup -> the process holding /tmp/slurm-<prefix>.lock, or NoProc
    proc,    \* process -> the invocation's own state (program counter, locals, logs)
    faults,  \* how many more provider calls may fail (bounds the fault injection)
    hosts,   \* /etc/hosts: the sequence of its lines
    hlock,   \* the process holding /etc/hosts.lock, or NoProc
    hp,      \* process -> where it is inside update_hosts_file
    written, \* node name -> the address of the last update_hosts_file that wrote
    ranker   \* the spot price list and the last call of get_instance_priority

vars == <<sched, inst, spot, lock, proc, faults, hosts, hlock, hp, written, ranker>>

-----------------------------------------------------------------------------
(* Bounds of the model *)

MaxFaults == 1      \* provider calls (per API and step) that may fail in a behaviour
MaxRuns == 2        \* invocations of the daemon by one cron slot
NumFresh == 2       \* instance ids the provider can still hand out

-----------------------------------------------------------------------------
(* The configuration (config.json): one partition, two nodegroups *)

NoProc == "none"
Procs == {"d1", "d2"}

partition_name == <<"p">>

\* nodegroup names, as character sequences
NG1 == <<"n", "g", "1">>
NG2 == <<"n", "g", "2">>

\* config["Partitions"][partition_name], in file order (line 720)
NodegroupSeq == <<NG1, NG2>>

NodegroupAtts(g) ==
    IF g = NG1
    THEN [PurchasingOption |-> "spot", AllocationStrategy |-> "lowest-price",
          Instances |-> <<"t1", "t2">>, SubnetIds |-> <<"s-a", "s-b">>,
          HasMaxHibernationMin |-> TRUE, MaxHibernationMin |-> 30]
    ELSE [PurchasingOption |-> "on-demand", AllocationStrategy |-> "rank",
          Instances |-> <<"t1">>, SubnetIds |-> <<"s-a">>,
          HasMaxHibernationMin |-> FALSE, MaxHibernationMin |-> 0]

\* line 723: nodegroup_prefix = partition_name + "-" + nodegroup_name
nodegroup_prefix(g) == partition_name \o <<"-">> \o g

\* node names <prefix>-<ordinal>
NodeName(g, k) == nodegroup_prefix(g) \o <<"-", k>>

A0 == NodeName(NG1, "0")
A1 == NodeName(NG1, "1")
B0 == NodeName(NG2, "0")

\* the order in which scontrol lists the nodes
NodeOrder == <<A0, A1, B0>>
NodeNames == {NodeOrder[i] : i \in 1..Len(NodeOrder)}

\* a nodegroup of the same partition whose name begins with the name of NG1,
\* and its node; a cluster that has the nodegroup lists the node as well
NG10 == <<"n", "g", "1", "0">>
C0 == NodeName(NG10, "0")
ListedOrder == <<A0, A1, C0, B0>>

\* str.startswith
StartsWith(x, pre) == Len(x) >= Len(pre) /\ SubSeq(x, 1, Len(pre)) = pre

-----------------------------------------------------------------------------
(* Identifiers *)

None == 0

\* instances and spot requests that may exist when the daemon starts
OldIds == 1..4
\* ids the provider hands out to run_instances
FreshIds == 5..(4 + NumFresh)
Ids == OldIds \cup FreshIds

\* the spot request made together with instance i carries the same number
SpotIds == Ids \cup {9}

\* A StateTransitionReason is [fmt, sec]: fmt is "none" (no parentheses: find
\* and rfind both give -1), "empty" ("()"), "garbage" (parenthesised text that
\* strptime rejects) or "ts" (a well formed timestamp, sec seconds before now).
\* off: what datetime.now() of the daemon's host (naive local time) is ahead
\* of the provider's UTC clock, in seconds.
Reason(fmt, sec) == [fmt |-> fmt, sec |-> sec, off |-> 0]
Skewed(reason, off) == [reason EXCEPT !.off = off]
NoReason == Reason("none", 0)

NoInstance == [state |-> "none", ng |-> <<>>, spotId |-> None, ip |-> None, reason |-> NoReason]
NoSpot == [state |-> "none", ng |-> <<>>, instanceId |-> None]

\* states that get_all_instances_for_nodegroup lists (line 367) and spot states (line 384)
LiveStates == {"pending", "running", "stopped", "stopping"}
OpenSpotStates == {"open", "active"}

-----------------------------------------------------------------------------
(* StateTransitionReason and get_hibernation_time *)

\* timedelta.seconds is the seconds within the day (line 275)
DaySeconds == 86400

\* Lines 267-278.  bound: the module level names bound in this process.
\* The result is [raised, sec]: sec is timedelta.seconds, the age in minutes
\* being sec / 60.
\*   "()": hib_time = "" and num_min_hibernated is unbound at line 278;
\*   unparseable text: the handler at line 272 reads the global instance_id;
\*   line 276 reads the global node_name.
get_hibernation_time(reason, bound) ==
    IF reason.fmt = "empty"
    THEN [raised |-> TRUE, sec |-> 0]
    ELSE IF reason.fmt \in {"none", "garbage"}
    THEN IF "instance_id" \in bound /\ "node_name" \in bound
         THEN [raised |-> FALSE, sec |-> 0]
         ELSE [raised |-> TRUE, sec |-> 0]
    ELSE IF "node_name" \in bound
         THEN [raised |-> FALSE, sec |-> (reason.sec + reason.off) % DaySeconds]
         ELSE [raised |-> TRUE, sec |-> 0]

\* line 235: num_min_hibernated > config["MaxHibernationMin"], minutes = sec / 60
ExceedsMaxHibernation(sec, config) == sec > config.MaxHibernationMin * 60

-----------------------------------------------------------------------------
(* Calls, as logged per process *)

\* A logged call.  g: the index of the nodegroup being swept; ph: the part of
\* the sweep that made the call ("pass": process_fleet_nodes, "orphan_instances"
\* and "orphan_spot": the loops of lines 749 and 755, "transplant": the loop of
\* line 760); node: the node being worked on (NoNode in the orphan loops);
\* tgt: the instance or spot request a provider call names; arg: the weight a
\* scheduler update sets (-1: none); att: the (mode, type, subnet) of a
\* run_instances call of the acquisition.
NoNode == <<>>
NoAttempt == [mode |-> "", type |-> "", subnet |-> "", market |-> FALSE, tags |-> <<>>]
SchedCall(w, n, upd) ==
    [t |-> "sched", api |-> upd.kind, g |-> w.g, ph |-> w.ph, node |-> n, tgt |-> upd.iid,
     arg |-> upd.weight, att |-> NoAttempt, ok |-> TRUE, ip |-> upd.ip, sid |-> upd.sid]
CloudCall(w, api, tgt, att, ok) ==
    [t |-> "cloud", api |-> api, g |-> w.g, ph |-> w.ph, node |-> w.node, tgt |-> tgt,
     arg |-> -1, att |-> att, ok |-> ok, ip |-> None, sid |-> None]

\* the provider calls that change something
MutatingApis == {"run_instances", "terminate_instances", "cancel_spot_instance_requests",
                 "detach_volume", "attach_volume", "delete_volume", "stop_instances",
                 "start_instances", "modify_network_interface_attribute"}

Upd(kind) == [kind |-> kind, iid |-> None, sid |-> None, ip |-> None, weight |-> -1]
UpdComment(iid, sid) == [Upd("comment") EXCEPT !.iid = iid, !.sid = sid]
UpdAddr(ip) == [Upd("nodeaddr") EXCEPT !.ip = ip]
UpdWeight(w) == [Upd("weight") EXCEPT !.weight = w]
\* a publish that gives every node the on-demand weight
UpdPublish_OnDemandWeight(ip, iid, sid, w) ==
    [kind |-> "publish", iid |-> iid, sid |-> sid, ip |-> ip, weight |-> 1]
\* lines 98, 128: nodeaddr, nodehostname, comment and weight in one update
UpdPublish(ip, iid, sid, w) ==
    [kind |-> "publish", iid |-> iid, sid |-> sid, ip |-> ip, weight |-> w]
\* line 597: nodeaddr, nodehostname and comment, no weight
UpdTransplant(ip, iid) ==
    [kind |-> "publish_recipient", iid |-> iid, sid |-> None, ip |-> ip, weight |-> -1]

\* What `scontrol update nodename=<n> ...` does to the node record.
ApplyUpdate(node, upd) ==
    CASE upd.kind = "state=IDLE" ->
            [node EXCEPT !.State = (@ \ {"DOWN", "DRAIN"}) \cup {"IDLE"}]
      [] upd.kind = "state=DRAIN reason=instance_hibernated" ->
            [node EXCEPT !.State = @ \cup {"DRAIN"}]
      [] upd.kind = "state=UNDRAIN" ->
            [node EXCEPT !.State = @ \ {"DRAIN"}]
      [] upd.kind \in {"state=POWER_DOWN_FORCE reason=instance_terminated",
                       "state=POWER_DOWN_FORCE reason=node_stuck",
                       "state=POWER_DOWN reason=node_stuck"} ->
            [node EXCEPT !.State = (@ \ {"POWERING_UP"}) \cup {"POWERING_DOWN"}]
      [] upd.kind = "comment" ->
            [node EXCEPT !.HasComment = TRUE, !.InstanceId = upd.iid, !.SpotId = upd.sid]
      [] upd.kind = "nodeaddr" ->
            [node EXCEPT !.NodeAddr = upd.ip]
      [] upd.kind = "weight" ->
            [node EXCEPT !.Weight = upd.weight]
      [] upd.kind = "publish" ->
            [node EXCEPT !.HasComment = TRUE, !.InstanceId = upd.iid, !.SpotId = upd.sid,
                         !.NodeAddr = upd.ip, !.Weight = upd.weight]
      [] upd.kind = "publish_recipient" ->
            [node EXCEPT !.HasComment = TRUE, !.InstanceId = upd.iid, !.SpotId = upd.sid,
                         !.NodeAddr = upd.ip]

-----------------------------------------------------------------------------
(* The world a step works on: the scheduler, the provider and the step's   *)
(* own bookkeeping.  Each call of the code is an operator from world to    *)
(* world, so a step is the composition of the calls the code makes.        *)

World(p, ph, node) ==
    [sched |-> sched, inst |-> inst, spot |-> spot, g |-> proc[p].gi, ph |-> ph,
     node |-> node, log |-> proc[p].log, failed |-> proc[p].failed, raised |-> FALSE,
     hosts |-> hosts, written |-> written,
     tp |-> proc[p].tp, seenI |-> proc[p].seenI, seenS |-> proc[p].seenS]

\* common.update_node (src/common.py lines 121-126)
update_node(w, n, upd) ==
    [w EXCEPT !.sched[n] = ApplyUpdate(@, upd),
              !.log = Append(@, SchedCall(w, n, upd))]

\* one provider call: logged, and failed when its API is in bad
Call(w, api, tgt, bad) ==
    [w EXCEPT !.log = Append(@, CloudCall(w, api, tgt, NoAttempt, api \notin bad)),
              !.failed = @ \/ api \in bad]

\* lines 281-301.  attrs is the attribute dict handed in: hasSpot says whether
\* it holds the key SpotInstanceRequestId.
terminate_instance(w, instance_id, attrs, bad) ==
    LET w1 == IF instance_id # None
              THEN LET c == Call(w, "terminate_instances", instance_id, bad)
                   IN IF "terminate_instances" \in bad \/ c.inst[instance_id].state = "none"
                      THEN c
                      ELSE [c EXCEPT !.inst[instance_id].state = "terminated"]
              ELSE w
    IN IF attrs.hasSpot
       THEN LET c == Call(w1, "cancel_spot_instance_requests", attrs.spotId, bad)
            IN IF "cancel_spot_instance_requests" \in bad \/ c.spot[attrs.spotId].state = "none"
               THEN c
               ELSE [c EXCEPT !.spot[attrs.spotId].state = "cancelled"]
       ELSE w1

\* the attribute dict of an instance as describe_instances returns it
Attributes(i) == [hasSpot |-> i.spotId # None, spotId |-> i.spotId]

\* lines 304-319
cancel_spot(w, spot_id, bad) ==
    LET w1 == Call(w, "describe_spot_instance_requests", spot_id, bad)
        instance_id == IF "describe_spot_instance_requests" \in bad
                       THEN None
                       ELSE w.spot[spot_id].instanceId
    IN terminate_instance(w1, instance_id, [hasSpot |-> TRUE, spotId |-> spot_id], bad)

-----------------------------------------------------------------------------
(* update_hosts_file, lines 20-50 *)

\* A line of the hosts file: an address and the names after it, single
\* spaces between them.  A line without names is a blank or one-word line.
HostLine(ip, names) == [ip |-> ip, names |-> names]

\* line 31: cols = line.split(" ")
Cols(line) == <<line.ip>> \o line.names

\* line 33: the line is dropped when its second column is the node name
Dropped(line, node_name) ==
    Len(Cols(line)) > 1 /\ Cols(line)[2] = node_name

\* lines 29-35: the lines that are kept, in the order of the file
RECURSIVE KeptLines(_, _)
KeptLines(file, node_name) ==
    IF file = <<>> THEN <<>>
    ELSE IF Dropped(Head(file), node_name)
    THEN KeptLines(Tail(file), node_name)
    ELSE <<Head(file)>> \o KeptLines(Tail(file), node_name)

\* lines 26-44: what the file holds after the rewrite
Rewritten(file, node_name, ip) ==
    KeptLines(file, node_name) \o <<HostLine(ip, <<node_name>>)>>

\* One whole call from inside a sweep step.  The call is logged; when the
\* lock cannot be taken within the timeout (lines 46-47) nothing is written.
update_hosts_file(w, node_name, ip, bad) ==
    LET timeout == "update_hosts_file" \in bad
        w1 == [w EXCEPT !.log = Append(@, [CloudCall(w, "update_hosts_file", ip,
                                                     NoAttempt, ~timeout)
                                           EXCEPT !.t = "hosts", !.node = node_name, !.ip = ip])]
    IN IF timeout THEN w1
       ELSE [w1 EXCEPT !.hosts = Rewritten(@, node_name, ip),
                       !.written[node_name] = ip]

-----------------------------------------------------------------------------
(* Acquisition: request_new_instances, lines 54-148 *)

\* the instance types of the price list
RankTypes == {"t1", "t2", "t3"}

\* lines 419-446, get_spot_pricing(region, x): what the price list says, None
\* for "N/A*" and for a type or region the list does not hold
SpotPrice(type) == ranker.prices[type]

\* sorted() compares the keys with <; None compared with a number or with
\* None raises TypeError.  A list of fewer than two types is not compared.
SortRaises(types) ==
    Len(types) >= 2 /\ \E j \in 1..Len(types) : SpotPrice(types[j]) = None

\* sorted(instances, key=lambda x: get_spot_pricing(region, x)): stable,
\* ascending
RECURSIVE SortedByPrice(_)
SortedByPrice(types) ==
    IF types = <<>> THEN <<>>
    ELSE LET m == CHOOSE j \in 1..Len(types) :
                    \A i \in 1..Len(types) :
                        \/ SpotPrice(types[j]) < SpotPrice(types[i])
                        \/ (SpotPrice(types[j]) = SpotPrice(types[i]) /\ j <= i)
         IN <<types[m]>>
              \o SortedByPrice(SubSeq(types, 1, m - 1) \o SubSeq(types, m + 1, Len(types)))

\* lines 449-466.  Strategy "rank" and purchasing option on-demand keep the
\* configured order, "lowest-price" sorts by spot price; the other two
\* strategies sort by keys that the configuration modelled here does not use.
\* The value is the ranking when the call does not raise.
get_instance_priority(instances, allocation_strategy, purchasing_option) ==
    IF allocation_strategy = "rank" \/ purchasing_option = "on-demand"
    THEN instances
    ELSE SortedByPrice(instances)

\* line 457: the call raises when the sort does
RankingRaises(instances, allocation_strategy, purchasing_option) ==
    /\ ~(allocation_strategy = "rank" \/ purchasing_option = "on-demand")
    /\ SortRaises(instances)

\* lines 65-76: the tag specifications, by resource type
tag_specifications == <<"instance", "spot-instances-request">>

\* a fallback that keeps the tags of the spot request
OnDemandTags_Keep(tags) == tags
\* line 116: tag_specifications.pop(-1)
OnDemandTags(tags) == SubSeq(tags, 1, Len(tags) - 1)

\* the (type, subnet) pairs in the order of the nested loops (lines 86-87,
\* 117-118); market: InstanceMarketOptions is passed; tags: the
\* TagSpecifications passed
Grid(mode, types, subnets, market, tags) ==
    [j \in 1..(Len(types) * Len(subnets)) |->
        [mode |-> mode,
         type |-> types[((j - 1) \div Len(subnets)) + 1],
         subnet |-> subnets[((j - 1) % Len(subnets)) + 1],
         market |-> market, tags |-> tags]]

\* every run_instances attempt the code would make if all of them failed
Attempts(config, instance_rank) ==
    (IF config.PurchasingOption = "spot"
     THEN Grid("spot", instance_rank, config.SubnetIds, TRUE, tag_specifications)
     ELSE <<>>)
    \o Grid("on-demand", config.Instances, config.SubnetIds, FALSE,
            OnDemandTags(tag_specifications))

FreshId(w) == CHOOSE i \in FreshIds : w.inst[i].state = "none" /\ \A j \in FreshIds : j < i => w.inst[j].state # "none"

\* the address the provider gives a new instance
NewIp(i) == 10 + i

RECURSIVE FailedRuns(_, _, _)
\* the first k attempts, each a failed run_instances call
FailedRuns(w, attempts, k) ==
    IF k = 0 THEN w
    ELSE [FailedRuns(w, attempts, k - 1) EXCEPT
            !.log = Append(@, CloudCall(w, "run_instances", None, attempts[k], FALSE)),
            !.failed = TRUE]

\* lines 90-96, 122-126: a run_instances call that returns instance id
Launched(w, a, id, g) ==
    [w EXCEPT
       !.log = Append(@, CloudCall(w, "run_instances", id, a, TRUE)),
       !.inst[id] = [state |-> "pending", ng |-> g,
                     spotId |-> IF a.mode = "spot" THEN id ELSE None,
                     ip |-> NewIp(id), reason |-> NoReason],
       !.spot[id] = IF a.mode = "spot"
                    THEN [state |-> "active", ng |-> g, instanceId |-> id]
                    ELSE @]

\* lines 98-99, 128-129: the node is published and the hosts file rewritten
Published(w, node_name, a, id, bad) ==
    update_hosts_file(
      update_node(w, node_name,
                  UpdPublish(NewIp(id), id, IF a.mode = "spot" THEN id ELSE None,
                             IF a.mode = "spot" THEN 2 ELSE 1)),
      node_name, NewIp(id), bad)

\* lines 98 and 106-107, 128 and 136-137: common.update_node raises (scontrol
\* cannot be started); the handler of the attempt logs it and node_allocated
\* stays False
PublishRaised(w, node_name, a, id) ==
    [w EXCEPT
       !.log = Append(@, [SchedCall(w, node_name,
                                    UpdPublish(NewIp(id), id,
                                               IF a.mode = "spot" THEN id ELSE None,
                                               IF a.mode = "spot" THEN 2 ELSE 1))
                          EXCEPT !.ok = FALSE]),
       !.failed = TRUE]

\* after an attempt whose publish raised the loops go on (lines 109-112,
\* 139-142 test node_allocated)
GoOn(attempts, j) == j < Len(attempts)

\* lines 144-146: no attempt gave an instance; a warning is logged
GaveUp_PowerDown(w, node_name) ==
    update_node(w, node_name, Upd("state=POWER_DOWN_FORCE reason=instance_terminated"))
GaveUp(w, node_name) == w

\* k: how many run_instances calls fail before one succeeds.  A call that
\* succeeds returns one instance (MinCount = MaxCount = 1); the node is
\* published and all loops are left (lines 98-112, 128-142).  With "publish"
\* in bad the update_node of the first instance raises and the next attempt,
\* if there is one, is made.
request_new_instances(w, node_name, config, instance_rank, g, k, bad) ==
    LET attempts == Attempts(config, instance_rank)
        n == Len(attempts)
        wf == FailedRuns(w, attempts, IF k < n THEN k ELSE n)
    IN IF k >= n
       THEN GaveUp(wf, node_name)
       ELSE LET a == attempts[k + 1]
                id == FreshId(w)
                w1 == Launched(wf, a, id, g)
            IN IF "publish" \notin bad
               THEN Published(w1, node_name, a, id, bad)
               ELSE LET w2 == PublishRaised(w1, node_name, a, id)
                    IN IF GoOn(attempts, k + 1)
                       THEN Published(Launched(w2, attempts[k + 2], FreshId(w2), g),
                                      node_name, attempts[k + 2], FreshId(w2), bad)
                       ELSE w2

-----------------------------------------------------------------------------
(* process_fleet_nodes, lines 151-258: the body of the loop for one node *)

\* lines 197-211: no instance is allocated to this node
\* line 199
WantsInstance_Any(node_states) == TRUE
WantsInstance(node_states) == "POWERING_UP" \in node_states

NodeUnlinked(w, node_name, node_states, instance_id_raw, config, instance_rank, g, k, bad) ==
    IF WantsInstance(node_states)
    THEN request_new_instances(w, node_name, config, instance_rank, g, k, bad)
    ELSE IF "POWERED_DOWN" \in node_states \/ "POWERING_DOWN" \in node_states
    THEN IF instance_id_raw # None
         THEN update_node(w, node_name, UpdComment(None, None))
         ELSE w
    ELSE update_node(w, node_name, Upd("state=POWER_DOWN_FORCE reason=instance_terminated"))

\* a drain that is issued again for a node that is already draining
DrainRow_Always(w, node_name, node_states) ==
    update_node(w, node_name, Upd("state=DRAIN reason=instance_hibernated"))
\* lines 228-230
DrainRow(w, node_name, node_states) ==
    IF "DRAIN" \notin node_states
    THEN update_node(w, node_name, Upd("state=DRAIN reason=instance_hibernated"))
    ELSE w

\* lines 226-237: the linked instance is stopped
NodeHibernated(w, node_name, node_states, instance_id, ia, config, bound) ==
    LET w1 == DrainRow(w, node_name, node_states)
    IN IF config.HasMaxHibernationMin
       THEN LET r == get_hibernation_time(ia.reason, bound)
            IN IF r.raised
               THEN [w1 EXCEPT !.raised = TRUE]
               ELSE IF ExceedsMaxHibernation(r.sec, config)
               THEN [w1 EXCEPT !.tp = Append(@, <<node_name, instance_id>>)]
               ELSE w1
       ELSE w1

\* lines 249-252: the node's address follows the instance's address
RepairAddress_Never(w, node_name, na, instance_ip) == w
RepairAddress_Always(w, node_name, na, instance_ip) ==
    update_node(w, node_name, UpdAddr(instance_ip))
RepairAddress(w, node_name, na, instance_ip) ==
    IF instance_ip # na.NodeAddr
    THEN update_node(w, node_name, UpdAddr(instance_ip))
    ELSE w

\* a power down that does not look at the instance's state
PowerDown_Always(w, node_name, instance_id, ia, bad) ==
    update_node(terminate_instance(w, instance_id, Attributes(ia), bad),
                node_name, UpdComment(None, None))
\* lines 216-223: the node is powered down; its instance is terminated and
\* the comment cleared unless the instance is already on its way out
PowerDown(w, node_name, instance_id, ia, bad) ==
    IF ia.state \notin {"terminated", "stopping"}
    THEN update_node(terminate_instance(w, instance_id, Attributes(ia), bad),
                     node_name, UpdComment(None, None))
    ELSE w

\* a row that fires only when no row has fired for the node before it
ForceStuck_FirstMatch(w0, w, node_name, node_states) ==
    IF /\ Len(w.log) = Len(w0.log)
       /\ "COMPLETING" \in node_states
       /\ ("DRAIN" \in node_states \/ "NOT_RESPONDING" \in node_states)
    THEN update_node(w, node_name, Upd("state=POWER_DOWN_FORCE reason=node_stuck"))
    ELSE w
\* lines 246-248: an `if` of its own after the chain of lines 216-245.
\* w0: the world before the chain, w: the world after it.
ForceStuck(w0, w, node_name, node_states) ==
    IF "COMPLETING" \in node_states
       /\ ("DRAIN" \in node_states \/ "NOT_RESPONDING" \in node_states)
    THEN update_node(w, node_name, Upd("state=POWER_DOWN_FORCE reason=node_stuck"))
    ELSE w

\* lines 212-252: an instance is allocated to this node
NodeLinked(w, node_name, na, node_states, instance_id, ia, config, bound, bad) ==
    LET instance_ip == ia.ip
        w1 == IF "POWERED_DOWN" \in node_states \/ "POWERING_DOWN" \in node_states
              THEN PowerDown(w, node_name, instance_id, ia, bad)
              ELSE IF ia.state = "stopped"
              THEN NodeHibernated(w, node_name, node_states, instance_id, ia, config, bound)
              ELSE IF "DRAIN" \in node_states /\ ia.state # "stopped"
              THEN update_node(w, node_name, Upd("state=UNDRAIN"))
              ELSE IF "DOWN" \in node_states
              THEN update_node(w, node_name, Upd("state=POWER_DOWN reason=node_stuck"))
              ELSE w
        w2 == ForceStuck(w, w1, node_name, node_states)
        w3 == RepairAddress(w2, node_name, na, instance_ip)
    IN IF w1.raised THEN w1 ELSE w3

\* lines 166-172: the ids the node's comment holds are remembered; the
\* instance id only when the instance map holds it
RecordSeen_NoSpot(w, na, found) ==
    [w EXCEPT !.seenI = IF found THEN @ \cup {na.InstanceId} ELSE @]
RecordSeen(w, na, found) ==
    [w EXCEPT !.seenS = IF na.HasComment THEN @ \cup {na.SpotId} ELSE @,
              !.seenI = IF found THEN @ \cup {na.InstanceId} ELSE @]

\* lines 158-252 for one node.  na: the node's attributes as loaded at line
\* 710; instances: the instance map of line 739.
\* Lines 185-186 (Weight == 0) only write a log line and the chain of line 190
\* starts with a fresh `if`, so the weight decides nothing here.
process_node(w, node_name, na, instances, instance_rank, config, g, bound, bad, k) ==
    LET instance_id_raw == IF na.HasComment THEN na.InstanceId ELSE None
        found == instance_id_raw # None /\ instance_id_raw \in DOMAIN instances
        instance_id == IF found THEN instance_id_raw ELSE None
        w0 == RecordSeen(w, na, found)
        node_states == na.State
    IN IF "DOWN" \in node_states /\ "POWERED_DOWN" \in node_states
       THEN update_node(w0, node_name, Upd("state=IDLE"))
       ELSE IF "DRAIN" \in node_states /\ "POWERED_DOWN" \in node_states
       THEN update_node(w0, node_name, Upd("state=IDLE"))
       ELSE IF instance_id = None
       THEN NodeUnlinked(w0, node_name, node_states, instance_id_raw, config, instance_rank,
                         g, k, bad)
       ELSE NodeLinked(w0, node_name, na, node_states, instance_id, instances[instance_id],
                       config, bound, bad)

-----------------------------------------------------------------------------
(* The sweep driver, lines 709-774 *)

\* lines 357-394: the nodegroup's instances and spot requests
\* (the tag filter on nodegroup = <prefix>; every instance of a nodegroup
\* carries the nodegroup's launch template tag)
InstancesOf(nodegroup) ==
    {i \in Ids : inst[i].ng = nodegroup /\ inst[i].state \in LiveStates}
SpotRequestsOf(nodegroup) ==
    {s \in SpotIds : spot[s].ng = nodegroup /\ spot[s].state \in OpenSpotStates}

get_all_instances_for_nodegroup(nodegroup, bad) ==
    [instances |-> IF "describe_instances" \in bad
                   THEN <<>>
                   ELSE [i \in InstancesOf(nodegroup) |-> inst[i]],
     spot_requests |-> IF "describe_spot_instance_requests" \in bad
                       THEN {}
                       ELSE SpotRequestsOf(nodegroup)]

\* line 732: the nodes of the nodegroup, in the order of the node table
RECURSIVE FilterNodes(_, _, _)
FilterNodes(info, g, i) ==
    IF i > Len(ListedOrder) THEN <<>>
    ELSE LET x == ListedOrder[i]
             rest == FilterNodes(info, g, i + 1)
         IN IF /\ x \in DOMAIN info
               /\ StartsWith(x, nodegroup_prefix(g)) /\ info[x].Partitions = partition_name
            THEN <<x>> \o rest
            ELSE rest

\* a set of numbers in increasing order
RECURSIVE SortedSeq(_)
SortedSeq(S) ==
    IF S = {} THEN <<>>
    ELSE LET m == CHOOSE x \in S : \A y \in S : x <= y
         IN <<m>> \o SortedSeq(S \ {m})

\* lines 254-257: what the pass has not seen
OrphanInstances_All(instances, seen_instances) ==
    DOMAIN instances
OrphanInstances_None(instances, seen_instances) ==
    {}
OrphanInstances(instances, seen_instances) ==
    {x \in DOMAIN instances : x \notin seen_instances}
OrphanSpots(spot_requests, seen_spot) ==
    {x \in spot_requests : x \notin seen_spot}

\* lines 747-750
RECURSIVE TerminateOrphans(_, _, _, _)
TerminateOrphans(w, ids, instances, bad) ==
    IF ids = <<>> THEN w
    ELSE TerminateOrphans(
            terminate_instance(w, Head(ids), Attributes(instances[Head(ids)]), bad),
            Tail(ids), instances, bad)

\* lines 753-756
RECURSIVE CancelOrphanSpots(_, _, _)
CancelOrphanSpots(w, ids, bad) ==
    IF ids = <<>> THEN w
    ELSE CancelOrphanSpots(cancel_spot(w, Head(ids), bad), Tail(ids), bad)

\* the calls a step added to the log
NewCalls(w, p) == SubSeq(w.log, Len(proc[p].log) + 1, Len(w.log))

\* The faults a step may inject: a set of APIs that fail during this step,
\* within the budget, each of them actually called and failing in the step.
FaultSets(apis) == {bad \in SUBSET apis : Cardinality(bad) <= faults}
FaultsUsed(w, p, bad) ==
    \A a \in bad : \E j \in 1..Len(NewCalls(w, p)) :
        NewCalls(w, p)[j].api = a /\ ~NewCalls(w, p)[j].ok

\* the loop of line 720 moves on, or the invocation ends (line 774)
NextNodegroup(pr) ==
    IF pr.gi < Len(NodegroupSeq)
    THEN [pr EXCEPT !.pc = "lock", !.gi = @ + 1]
    ELSE [pr EXCEPT !.pc = "done"]

\* what a step leaves in the process record
Keep(pr, w) ==
    [pr EXCEPT !.log = w.log, !.failed = w.failed, !.tp = w.tp,
               !.seenI = w.seenI, !.seenS = w.seenS]

\* The nodes of a nodegroup by name.
NodesOfGroup(g) == {n \in NodeNames : StartsWith(n, nodegroup_prefix(g))}
Nodegroups == {NodegroupSeq[i] : i \in 1..Len(NodegroupSeq)}

\* A converged fleet: every node is powered down with an empty comment, or is
\* up on a pending or running instance of its nodegroup at the node's address;
\* every listed instance and open spot request is referenced by a node.
NodeAtRest(n, g) ==
    LET nd == sched[n]
    IN \/ /\ nd.HasComment /\ nd.InstanceId = None /\ nd.SpotId = None
          /\ "POWERED_DOWN" \in nd.State
          /\ nd.State \cap {"DOWN", "DRAIN", "POWERING_UP"} = {}
       \/ /\ nd.HasComment /\ nd.InstanceId \in InstancesOf(nodegroup_prefix(g))
          /\ inst[nd.InstanceId].state \in {"pending", "running"}
          /\ inst[nd.InstanceId].ip = nd.NodeAddr
          /\ nd.State \cap {"DOWN", "DRAIN", "COMPLETING", "POWERED_DOWN",
                             "POWERING_DOWN"} = {}

Converged ==
    \A g \in Nodegroups :
        /\ \A n \in NodesOfGroup(g) : NodeAtRest(n, g)
        /\ \A i \in InstancesOf(nodegroup_prefix(g)) :
              \E n \in NodesOfGroup(g) : sched[n].InstanceId = i
        /\ \A r \in SpotRequestsOf(nodegroup_prefix(g)) :
              \E n \in NodesOfGroup(g) : sched[n].SpotId = r

\* line 727, `with lock:`.  The file lock of the nodegroup can be taken when
\* no process holds it, and leaving the block releases it.
LockFree_Always(g) == TRUE
LockFree(g) == lock[g] = NoProc

LeaveLock_Held(g) == lock
LeaveLock(g) == [lock EXCEPT ![g] = NoProc]

\* the nodes for which the invocation made run_instances calls that all failed
Starved(pr) ==
    {n \in NodeNames :
        LET runs == {j \in 1..Len(pr.log) : /\ pr.log[j].ph = "pass" /\ pr.log[j].node = n
                                            /\ pr.log[j].api = "run_instances"}
        IN runs # {} /\ \A j \in runs : ~pr.log[j].ok}

\* line 710: all_node_info = scontrol_nodeinfo(), once per invocation
LoadNodes(p) ==
    /\ proc[p].pc = "load"
    /\ proc' = [proc EXCEPT ![p] =
                  [@ EXCEPT !.pc = "lock", !.gi = 1, !.info = sched, !.log = <<>>,
                            !.entered = <<>>, !.starved = Starved(proc[p]),
                            !.failed = FALSE, !.skipped = {}, !.swept = {},
                            !.cleaned = FALSE,
                            !.runs = @ + 1, !.bound = proc[p].bound0,
                            !.converged = Converged]]
    /\ UNCHANGED <<sched, inst, spot, lock, faults, hosts, hlock, hp, written, ranker>>

\* lines 725-741: the lock is taken, the nodes are filtered and the
\* nodegroup's instances and spot requests are enumerated
EnterNodegroup(p) ==
    LET pr == proc[p]
        g == NodegroupSeq[pr.gi]
    IN /\ pr.pc = "lock"
       /\ LockFree(g)
       /\ \E bad \in FaultSets({"describe_instances", "describe_spot_instance_requests"}) :
            LET got == get_all_instances_for_nodegroup(nodegroup_prefix(g), bad)
                nodes == FilterNodes(pr.info, g, 1)
                config == NodegroupAtts(g)
                raises == RankingRaises(config.Instances, config.AllocationStrategy,
                                        config.PurchasingOption)
            IN /\ raises => bad = {}
               /\ proc' = [proc EXCEPT ![p] =
                            IF raises
                            THEN [pr EXCEPT !.pc = "crashed", !.eg = pr.gi, !.cleaned = FALSE,
                                            !.entered = Append(@, pr.gi)]
                            ELSE
                            [pr EXCEPT !.pc = "pass", !.ni = 1, !.nodes = nodes, !.eg = pr.gi,
                                       !.entered = Append(@, pr.gi),
                                       !.enumfailed = "describe_instances" \in bad,
                                       !.instances = got.instances,
                                       !.spot_requests = got.spot_requests,
                                       !.failed = @ \/ bad # {},
                                       !.tp = <<>>, !.ti = 1, !.cleaned = FALSE,
                                       !.seenI = {}, !.seenS = {}]]
               /\ faults' = faults - Cardinality(bad)
               /\ lock' = IF raises THEN lock ELSE [lock EXCEPT ![g] = p]
       /\ UNCHANGED <<sched, inst, spot, hosts, hlock, hp, written, ranker>>

\* a handler that ends the invocation instead of moving on
LockTimeout_Exit(p) ==
    LET pr == proc[p]
        g == NodegroupSeq[pr.gi]
    IN /\ pr.pc = "lock"
       /\ lock[g] \notin {NoProc, p}
       /\ proc' = [proc EXCEPT ![p] = [pr EXCEPT !.skipped = @ \cup {pr.gi}, !.pc = "done"]]
       /\ UNCHANGED <<sched, inst, spot, lock, faults, hosts, hlock, hp, written, ranker>>

\* lines 771-772: the lock was not free for 10 s; the nodegroup is skipped
LockTimeout(p) ==
    LET pr == proc[p]
        g == NodegroupSeq[pr.gi]
    IN /\ pr.pc = "lock"
       /\ lock[g] \notin {NoProc, p}
       /\ proc' = [proc EXCEPT ![p] = NextNodegroup([pr EXCEPT !.skipped = @ \cup {pr.gi}])]
       /\ UNCHANGED <<sched, inst, spot, lock, faults, hosts, hlock, hp, written, ranker>>

\* one iteration of the loop of line 158.  An exception leaves the `with`
\* block (the lock is released) and, not being a TimeoutError, ends the process.
ProcessNodeWith(p, apis) ==
    LET pr == proc[p]
        g == NodegroupSeq[pr.gi]
        config == NodegroupAtts(g)
        instance_rank == get_instance_priority(config.Instances, config.AllocationStrategy,
                                               config.PurchasingOption)
    IN /\ pr.pc = "pass"
       /\ pr.ni <= Len(pr.nodes)
       /\ \E i \in FreshIds : inst[i].state = "none"    \* the model's supply of ids
       /\ \E bad \in FaultSets(apis),
             k \in 0..(IF "POWERING_UP" \in pr.info[pr.nodes[pr.ni]].State
                       THEN Len(Attempts(config, instance_rank)) ELSE 0) :
            LET node_name == pr.nodes[pr.ni]
                w == process_node(World(p, "pass", node_name), node_name, pr.info[node_name], pr.instances,
                                  instance_rank, config, nodegroup_prefix(g), pr.bound, bad, k)
                ran == \E j \in 1..Len(NewCalls(w, p)) : NewCalls(w, p)[j].api = "run_instances"
                cost == Cardinality(bad) + (IF k > 0 THEN 1 ELSE 0)
            IN /\ cost <= faults
               /\ "publish" \in bad =>
                     Cardinality({i \in FreshIds : inst[i].state = "none"}) >= 2
               /\ FaultsUsed(w, p, bad)
               /\ k > 0 => ran
               /\ faults' = faults - cost
               /\ sched' = w.sched /\ inst' = w.inst /\ spot' = w.spot
               /\ hosts' = w.hosts /\ written' = w.written
               /\ IF w.raised
                  THEN /\ proc' = [proc EXCEPT ![p] = [Keep(pr, w) EXCEPT !.pc = "crashed"]]
                       /\ lock' = LeaveLock(g)
                  ELSE /\ proc' = [proc EXCEPT ![p] = [Keep(pr, w) EXCEPT !.ni = @ + 1]]
                       /\ UNCHANGED lock
       /\ UNCHANGED <<hlock, hp, ranker>>

\* the provider calls and the hosts file update of a pass can fail
NodeApis == {"terminate_instances", "cancel_spot_instance_requests", "update_hosts_file"}

ProcessNode(p) == ProcessNodeWith(p, NodeApis)

\* lines 254-258 and 746-756: the orphans are computed and cleaned up, then
\* the `with` block ends and the lock is released.  The loop of line 749 binds
\* the module level name instance_id.
OrphanCleanup(p) ==
    LET pr == proc[p]
        g == NodegroupSeq[pr.gi]
        orphan_instances == OrphanInstances(pr.instances, pr.seenI)
        orphan_spot == OrphanSpots(pr.spot_requests, pr.seenS)
    IN /\ pr.pc = "pass"
       /\ pr.ni > Len(pr.nodes)
       /\ \E bad \in FaultSets({"terminate_instances", "cancel_spot_instance_requests",
                                "describe_spot_instance_requests"}) :
            LET w1 == TerminateOrphans(World(p, "orphan_instances", NoNode),
                                       SortedSeq(orphan_instances), pr.instances, bad)
                w == CancelOrphanSpots([w1 EXCEPT !.ph = "orphan_spot"],
                                       SortedSeq(orphan_spot), bad)
                pr1 == [Keep(pr, w) EXCEPT
                          !.bound = IF orphan_instances # {} THEN @ \cup {"instance_id"} ELSE @,
                          !.cleaned = TRUE, !.swept = @ \cup {pr.gi}]
            IN /\ FaultsUsed(w, p, bad)
               /\ faults' = faults - Cardinality(bad)
               /\ sched' = w.sched /\ inst' = w.inst /\ spot' = w.spot
               /\ proc' = [proc EXCEPT ![p] =
                            IF Len(pr.tp) > 0
                            THEN [pr1 EXCEPT !.pc = "t_lock", !.ti = 1]
                            ELSE NextNodegroup(pr1)]
       /\ lock' = LeaveLock(g)
       /\ UNCHANGED <<hosts, hlock, hp, written, ranker>>

-----------------------------------------------------------------------------
(* transplate_spot_to_od, lines 469-706, and the loop of lines 758-769 *)

CallOk(w, api, tgt, ok) ==
    [w EXCEPT !.log = Append(@, CloudCall(w, api, tgt, NoAttempt, ok)),
              !.failed = @ \/ ~ok]

Outcome(w, outcome, recipient) == [w |-> w, outcome |-> outcome, recipient |-> recipient]

\* lines 484-604: the donor is read, stripped and terminated and the recipient
\* is requested.  outcome: "raise" (an exception leaves the function),
\* "return" (return None) or "go" (the recipient exists).
\*   line 503: instance_info is {} when describe_instances failed or returned
\*             nothing, and instance_info["PrivateIpAddress"] raises;
\*   line 507: an instance without SpotInstanceRequestId raises;
\*   line 509: the spot request is described, not cancelled;
\*   line 551: terminate_instance is handed {} and cancels no spot request;
\*   line 572: launch_template_response is unbound when line 563 failed.
\* resumed: the provider resumes the donor, whose spot request is still
\* open, after the describe of line 487.
TransplantDonorPart(w, node_name, instance_id, g, bad, resumed) ==
    LET w0 == Call(w, "describe_instances", instance_id, bad)
        described == "describe_instances" \notin bad /\ w.inst[instance_id].state # "none"
        instance_info == w.inst[instance_id]
        w1 == IF resumed THEN [w0 EXCEPT !.inst[instance_id].state = "running"] ELSE w0
    IN IF described /\ instance_info.state # "stopped"
       THEN Outcome(w0, "return", None)
       ELSE IF ~described \/ instance_info.spotId = None
       THEN Outcome(w0, "raise", None)
       ELSE
         LET w2 == Call(w1, "describe_spot_instance_requests", instance_info.spotId, bad)
             w3 == Call(w2, "detach_volume", instance_id, bad)
             w4 == Call(w3, "modify_network_interface_attribute", instance_id, bad)
             w5 == terminate_instance(w4, instance_id, [hasSpot |-> FALSE, spotId |-> None], bad)
             w6 == Call(w5, "describe_launch_template_versions", instance_id, bad)
             id == FreshId(w)
             w7 == Call(w6, "run_instances",
                        IF "run_instances" \in bad THEN None ELSE id, bad)
         IN IF "describe_launch_template_versions" \in bad
            THEN Outcome(w6, "raise", None)
            ELSE IF "run_instances" \in bad
            THEN Outcome(w7, "return", None)
            ELSE Outcome(
                   update_hosts_file(
                     update_node(
                       [w7 EXCEPT !.inst[id] = [state |-> "pending", ng |-> g, spotId |-> None,
                                                ip |-> instance_info.ip, reason |-> NoReason]],
                       node_name, UpdTransplant(instance_info.ip, id)),
                     node_name, instance_info.ip, bad),
                   "go", id)

\* lines 609-617: one reachability check of the recipient
PollReachable(w, recipient_id, bad) ==
    Call([w EXCEPT !.inst[recipient_id].state = "running"],
         "describe_instance_status", recipient_id, bad)

\* lines 623-627: stop_instances(Hibernate=True); a failure returns None
StopRecipient(w, recipient_id, bad) ==
    LET w2 == Call(w, "stop_instances", recipient_id, bad)
    IN IF "stop_instances" \in bad THEN w2
       ELSE [w2 EXCEPT !.inst[recipient_id].state = "stopping",
                       !.inst[recipient_id].reason = Reason("ts", 0)]

\* lines 633-645: one look at the recipient's state.  hib: whether the
\* recipient has reached "stopped" by now.
PollStopped(w, recipient_id, bad, hib) ==
    Call([w EXCEPT !.inst[recipient_id].state = IF hib THEN "stopped" ELSE @],
         "describe_instances", recipient_id, bad)

\* a workflow that returns at the first failed call after the wait
FinishRecipient_Abort(w, node_name, recipient_id, bad) ==
    LET w5 == Call(w, "modify_network_interface_attribute", recipient_id, bad)
        w6 == Call(w5, "detach_volume", recipient_id, bad)
        w7 == Call(w6, "attach_volume", recipient_id, bad)
        started == "start_instances" \notin bad /\ w.inst[recipient_id].state = "stopped"
        w8 == CallOk(w7, "start_instances", recipient_id, started)
        w9 == IF started THEN [w8 EXCEPT !.inst[recipient_id].state = "pending"] ELSE w8
        w10 == Call(w9, "delete_volume", recipient_id, bad)
    IN IF "modify_network_interface_attribute" \in bad THEN w5
       ELSE IF "detach_volume" \in bad THEN w6
       ELSE IF "delete_volume" \in bad THEN w10
       ELSE update_node(w10, node_name, Upd("state=UNDRAIN"))

\* a workflow that starts the recipient before it has the donor's volumes
FinishRecipient_StartFirst(w, node_name, recipient_id, bad) ==
    LET started == "start_instances" \notin bad /\ w.inst[recipient_id].state = "stopped"
        w5 == CallOk(w, "start_instances", recipient_id, started)
        w6 == IF started THEN [w5 EXCEPT !.inst[recipient_id].state = "pending"] ELSE w5
        w7 == Call(w6, "modify_network_interface_attribute", recipient_id, bad)
        w8 == Call(w7, "detach_volume", recipient_id, bad)
        w9 == Call(w8, "attach_volume", recipient_id, bad)
        w10 == Call(w9, "delete_volume", recipient_id, bad)
    IN update_node(w10, node_name, Upd("state=UNDRAIN"))

\* lines 650-706: the interfaces are re-marked, the recipient's volumes are
\* detached, the donor's attached, the recipient started, its own volumes
\* deleted and the node undrained
FinishRecipient(w, node_name, recipient_id, bad) ==
    LET w5 == Call(w, "modify_network_interface_attribute", recipient_id, bad)
        w6 == Call(w5, "detach_volume", recipient_id, bad)
        w7 == Call(w6, "attach_volume", recipient_id, bad)
        started == "start_instances" \notin bad /\ w.inst[recipient_id].state = "stopped"
        w8 == CallOk(w7, "start_instances", recipient_id, started)
        w9 == IF started THEN [w8 EXCEPT !.inst[recipient_id].state = "pending"] ELSE w8
        w10 == Call(w9, "delete_volume", recipient_id, bad)
    IN update_node(w10, node_name, Upd("state=UNDRAIN"))

\* lines 606-706: the recipient is hibernated, given the donor's volumes and
\* started.  hib: whether the recipient reaches "stopped" during the wait of
\* lines 633-647; the function goes on in either case.
TransplantRecipientPart(w, node_name, recipient_id, bad, hib) ==
    LET w2 == StopRecipient(PollReachable(w, recipient_id, bad), recipient_id, bad)
    IN IF "stop_instances" \in bad
       THEN Outcome(w2, "return", recipient_id)
       ELSE Outcome(FinishRecipient(PollStopped(w2, recipient_id, bad, hib),
                                    node_name, recipient_id, bad),
                    "return", recipient_id)

\* lines 760-763: the names node_name and instance_id are bound at module
\* level and the node is marked with weight=0
TransplantLock(p) ==
    LET pr == proc[p]
        w == update_node(World(p, "transplant", pr.tp[pr.ti][1]), pr.tp[pr.ti][1], UpdWeight(0))
    IN /\ pr.pc = "t_lock"
       /\ sched' = w.sched
       /\ proc' = [proc EXCEPT ![p] =
                     [Keep(pr, w) EXCEPT !.pc = "t_donor",
                                         !.bound = @ \cup {"node_name", "instance_id"}]]
       /\ UNCHANGED <<inst, spot, lock, faults, hosts, hlock, hp, written, ranker>>

DonorApis == {"update_hosts_file",
              "describe_instances", "describe_spot_instance_requests", "detach_volume",
              "modify_network_interface_attribute", "terminate_instances",
              "describe_launch_template_versions", "run_instances"}

TransplantDonorWith(p, resumptions) ==
    LET pr == proc[p]
        g == NodegroupSeq[pr.gi]
    IN /\ pr.pc = "t_donor"
       /\ \E i \in FreshIds : inst[i].state = "none"    \* the model's supply of ids
       /\ \E bad \in FaultSets(DonorApis), resumed \in resumptions :
            LET r == TransplantDonorPart(World(p, "transplant", pr.tp[pr.ti][1]),
                                         pr.tp[pr.ti][1], pr.tp[pr.ti][2],
                                         nodegroup_prefix(g), bad, resumed)
            IN /\ FaultsUsed(r.w, p, bad)
               /\ resumed => r.outcome # "raise" /\ inst[pr.tp[pr.ti][2]].state = "stopped"
               /\ faults' = faults - Cardinality(bad)
               /\ sched' = r.w.sched /\ inst' = r.w.inst /\ spot' = r.w.spot
               /\ hosts' = r.w.hosts /\ written' = r.w.written
               /\ proc' = [proc EXCEPT ![p] =
                            [Keep(pr, r.w) EXCEPT
                               !.pc = IF r.outcome = "go" THEN "t_recipient" ELSE "t_unlock",
                               !.raising = r.outcome = "raise",
                               !.resumed = resumed,
                               !.recipient = r.recipient]]
       /\ UNCHANGED <<lock, hlock, hp, ranker>>

\* the donor stays hibernated while the workflow runs
TransplantDonor(p) == TransplantDonorWith(p, {FALSE})

RecipientApis == {"describe_instance_status", "stop_instances", "describe_instances",
                  "modify_network_interface_attribute", "detach_volume", "attach_volume",
                  "start_instances", "delete_volume"}

TransplantRecipient(p) ==
    LET pr == proc[p]
    IN /\ pr.pc = "t_recipient"
       /\ \E bad \in FaultSets(RecipientApis), hib \in BOOLEAN :
            LET r == TransplantRecipientPart(World(p, "transplant", pr.tp[pr.ti][1]),
                                             pr.tp[pr.ti][1], pr.recipient, bad, hib)
            IN /\ FaultsUsed(r.w, p, bad)
               /\ faults' = faults - Cardinality(bad)
               /\ sched' = r.w.sched /\ inst' = r.w.inst /\ spot' = r.w.spot
               /\ proc' = [proc EXCEPT ![p] = [Keep(pr, r.w) EXCEPT !.pc = "t_unlock"]]
       /\ UNCHANGED <<lock, hosts, hlock, hp, written, ranker>>

\* lines 768-769: the finally clause runs whether or not an exception is on
\* its way out
RestoreWeight_Else(w, node_name, raising) ==
    IF raising THEN w ELSE update_node(w, node_name, UpdWeight(1))
RestoreWeight(w, node_name, raising) ==
    update_node(w, node_name, UpdWeight(1))

\* lines 766-769: finally weight=1; an exception is raised again and, not
\* being a TimeoutError, ends the process
TransplantUnlock(p) ==
    LET pr == proc[p]
        w == RestoreWeight(World(p, "transplant", pr.tp[pr.ti][1]), pr.tp[pr.ti][1], pr.raising)
        pr1 == Keep(pr, w)
    IN /\ pr.pc = "t_unlock"
       /\ sched' = w.sched
       /\ proc' = [proc EXCEPT ![p] =
                     IF pr.raising
                     THEN [pr1 EXCEPT !.pc = "crashed"]
                     ELSE IF pr.ti < Len(pr.tp)
                     THEN [pr1 EXCEPT !.pc = "t_lock", !.ti = @ + 1, !.reach = 0, !.waited = 0]
                     ELSE NextNodegroup([pr1 EXCEPT !.reach = 0, !.waited = 0])]
       /\ UNCHANGED <<inst, spot, lock, faults, hosts, hlock, hp, written, ranker>>

\* cron starts the daemon again
Restart(p) ==
    /\ proc[p].pc \in {"done", "crashed"}
    /\ proc[p].runs < proc[p].maxruns
    /\ proc' = [proc EXCEPT ![p] = [@ EXCEPT !.pc = "load", !.raising = FALSE,
                                              !.prev = proc[p].pc,
                                              !.prevfailed = proc[p].failed]]
    /\ UNCHANGED <<sched, inst, spot, lock, faults, hosts, hlock, hp, written, ranker>>

-----------------------------------------------------------------------------
(* Initial states *)

\* What a node and its instance look like when the daemons start.
\*   link: "nocomment" (no Comment attribute), "none" (InstanceId and SpotId
\*   empty), "live" (the instance exists in state istate), "gone" (the
\*   instance was terminated; a persistent spot request is open again).
NodeCase(st, w, link, istate, spotted, addr, reason) ==
    [st |-> st, w |-> w, link |-> link, istate |-> istate, spotted |-> spotted,
     addr |-> addr, reason |-> reason]

\* an address that is not the instance's
StaleIp(id) == NewIp(id) + 100
Min45 == Reason("ts", 45 * 60)
Min10 == Reason("ts", 10 * 60)

Up == NodeCase({"IDLE"}, 2, "live", "running", TRUE, "ok", NoReason)
Acquire == NodeCase({"POWERING_UP"}, 1, "none", "none", FALSE, "ok", NoReason)
PoweredDown == NodeCase({"IDLE", "POWERED_DOWN"}, 1, "none", "none", FALSE, "ok", NoReason)
Release == NodeCase({"IDLE", "POWERED_DOWN"}, 2, "live", "running", TRUE, "ok", NoReason)
Hibernated45 == NodeCase({"IDLE"}, 2, "live", "stopped", TRUE, "ok", Min45)

RichA0 ==
    { Up, Acquire, PoweredDown, Release, Hibernated45,
      NodeCase({"POWERING_DOWN"}, 2, "live", "stopping", TRUE, "ok", NoReason),
      NodeCase({"IDLE", "POWERING_DOWN"}, 2, "live", "stopped", TRUE, "ok", Min10),
      NodeCase({"IDLE", "POWERED_DOWN"}, 2, "gone", "none", TRUE, "ok", NoReason),
      NodeCase({"IDLE"}, 2, "gone", "none", TRUE, "ok", NoReason),
      NodeCase({"POWERING_UP"}, 2, "gone", "none", TRUE, "ok", NoReason),
      NodeCase({"IDLE"}, 1, "nocomment", "none", FALSE, "ok", NoReason),
      NodeCase({"IDLE"}, 2, "live", "running", TRUE, "stale", NoReason),
      NodeCase({"IDLE", "POWERED_DOWN"}, 1, "live", "running", FALSE, "stale", NoReason),
      NodeCase({"IDLE", "DRAIN"}, 2, "live", "stopped", TRUE, "ok", Min10),
      NodeCase({"IDLE", "DRAIN"}, 2, "live", "stopped", TRUE, "ok", Min45),
      NodeCase({"IDLE", "DRAIN"}, 1, "live", "stopped", FALSE, "ok", Min45),
      NodeCase({"IDLE", "DRAIN"}, 0, "live", "stopped", TRUE, "ok", Min45),
      NodeCase({"IDLE", "DRAIN"}, 2, "live", "running", TRUE, "ok", NoReason),
      NodeCase({"DOWN"}, 2, "live", "running", TRUE, "ok", NoReason),
      NodeCase({"COMPLETING", "DRAIN"}, 2, "live", "running", TRUE, "stale", NoReason),
      NodeCase({"DOWN", "POWERED_DOWN"}, 2, "live", "running", TRUE, "stale", NoReason),
      NodeCase({"DRAIN", "POWERED_DOWN"}, 1, "none", "none", FALSE, "ok", NoReason),
      NodeCase({"IDLE"}, 0, "live", "running", TRUE, "stale", NoReason) }

RichA1 == { Up, Hibernated45 }
RichB0 == { PoweredDown, Acquire }

SmallA0 == { Hibernated45, Release, Acquire }
SmallA1 == { Up }
SmallB0 == { PoweredDown, Acquire }

NodeRec(c, id) ==
    [State |-> c.st, Weight |-> c.w, HasComment |-> c.link # "nocomment",
     InstanceId |-> IF c.link \in {"live", "gone"} THEN id ELSE None,
     SpotId |-> IF c.link \in {"live", "gone"} /\ c.spotted THEN id ELSE None,
     NodeAddr |-> IF c.link = "live" /\ c.addr = "ok" THEN NewIp(id)
                  ELSE IF c.link = "live" THEN StaleIp(id) ELSE None,
     Partitions |-> partition_name]

InstRec(c, id, g) ==
    IF c.link = "live"
    THEN [state |-> c.istate, ng |-> nodegroup_prefix(g),
          spotId |-> IF c.spotted THEN id ELSE None, ip |-> NewIp(id), reason |-> c.reason]
    ELSE IF c.link = "gone"
    THEN [state |-> "terminated", ng |-> nodegroup_prefix(g),
          spotId |-> IF c.spotted THEN id ELSE None, ip |-> NewIp(id), reason |-> NoReason]
    ELSE NoInstance

SpotRec(c, id, g) ==
    IF c.link \in {"live", "gone"} /\ c.spotted
    THEN [state |-> IF c.link = "live" THEN "active" ELSE "open", ng |-> nodegroup_prefix(g),
          instanceId |-> IF c.link = "live" THEN id ELSE None]
    ELSE NoSpot

\* an instance of nodegroup 1 that no node references, with its spot request
OrphanInstance == [state |-> "running", ng |-> nodegroup_prefix(NG1), spotId |-> 4,
                   ip |-> NewIp(4), reason |-> NoReason]
OrphanInstanceSpot == [state |-> "active", ng |-> nodegroup_prefix(NG1), instanceId |-> 4]
\* an open spot request of nodegroup 1 that no node references
OrphanSpot == [state |-> "open", ng |-> nodegroup_prefix(NG1), instanceId |-> None]

NoInfo == <<>>

InitProc(active, bound0, maxruns) ==
    [pc |-> IF active THEN "load" ELSE "off", runs |-> 0, maxruns |-> maxruns,
     gi |-> 1, ni |-> 1, ti |-> 1, info |-> NoInfo, nodes |-> <<>>,
     instances |-> <<>>, spot_requests |-> {}, tp |-> <<>>, seenI |-> {}, seenS |-> {},
     eg |-> 0, cleaned |-> FALSE, swept |-> {}, log |-> <<>>, failed |-> FALSE, skipped |-> {},
     bound |-> bound0, bound0 |-> bound0, raising |-> FALSE, recipient |-> None,
     prev |-> "none", prevfailed |-> FALSE, converged |-> FALSE,
     entered |-> <<>>, reach |-> 0, waited |-> 0, starved |-> {}, enumfailed |-> FALSE,
     resumed |-> FALSE]

\* The module level names the process starts with.  The script binds
\* node_name only at line 760; a namespace that already holds the names (an
\* embedding that ran the transplant loop before) starts with both bound.
Namespaces == { {}, {"node_name", "instance_id"} }

InitWith(two, a0, a1, b0, oi, os, bound0, f, maxruns) ==
    /\ sched = [n \in NodeNames |->
                  IF n = A0 THEN NodeRec(a0, 1)
                  ELSE IF n = A1 THEN NodeRec(a1, 2) ELSE NodeRec(b0, 3)]
    /\ inst = [i \in Ids |->
                 IF i = 1 THEN InstRec(a0, 1, NG1)
                 ELSE IF i = 2 THEN InstRec(a1, 2, NG1)
                 ELSE IF i = 3 THEN InstRec(b0, 3, NG2)
                 ELSE IF i = 4 /\ oi THEN OrphanInstance
                 ELSE NoInstance]
    /\ spot = [s \in SpotIds |->
                 IF s = 1 THEN SpotRec(a0, 1, NG1)
                 ELSE IF s = 2 THEN SpotRec(a1, 2, NG1)
                 ELSE IF s = 3 THEN SpotRec(b0, 3, NG2)
                 ELSE IF s = 4 /\ oi THEN OrphanInstanceSpot
                 ELSE IF s = 9 /\ os THEN OrphanSpot
                 ELSE NoSpot]
    /\ lock = [g \in {NG1, NG2} |-> NoProc]
    /\ proc = [p \in Procs |->
                 InitProc(two \/ p = "d1", bound0, maxruns)]
    /\ faults = f

\* The hosts file holds one line for every node that has an address; no
\* process is inside update_hosts_file.
HostsOf(s) ==
    LET L(n) == IF s[n].NodeAddr # None
                THEN <<HostLine(s[n].NodeAddr, <<n>>)>> ELSE <<>>
    IN L(A0) \o L(A1) \o L(B0)

HostsIdle == [pc |-> "idle", node |-> NoNode, ip |-> None, entries |-> <<>>,
              calls |-> 0, outcome |-> "none"]

\* the price list the sweeps see: t2 below t1
FleetPrices == [t \in RankTypes |-> IF t = "t2" THEN 1 ELSE 2]

RankerIdle(prices) ==
    [prices |-> prices, instances |-> <<>>, strategy |-> "rank", option |-> "spot",
     pc |-> "idle", out |-> <<>>, raised |-> FALSE]

InitHosts(file) ==
    /\ hosts = file
    /\ hlock = NoProc
    /\ hp = [p \in Procs |-> HostsIdle]
    /\ written = [n \in NodeNames |-> None]

\* One daemon run MaxRuns times by cron over a wide choice of node tables
\* with a provider that answers every call; one daemon run once with
\* provider faults over the wide choice for its first node; one daemon with
\* faults and reruns over a narrower choice; or two daemons started together
\* over the narrower choice.
Init ==
    /\ \/ \E a0 \in RichA0, a1 \in RichA1, b0 \in RichB0, o \in BOOLEAN,
             bound0 \in Namespaces :
            InitWith(FALSE, a0, a1, b0, o, o, bound0, 0, MaxRuns)
       \/ \E a0 \in RichA0, a1 \in SmallA1, b0 \in RichB0, o \in BOOLEAN,
             bound0 \in Namespaces :
            InitWith(FALSE, a0, a1, b0, o, o, bound0, MaxFaults, 1)
       \/ \E a0 \in SmallA0, a1 \in SmallA1, b0 \in SmallB0, o \in BOOLEAN,
             bound0 \in Namespaces :
            \/ InitWith(FALSE, a0, a1, b0, o, o, bound0, MaxFaults, MaxRuns)
            \/ InitWith(TRUE, a0, a1, b0, o, o, bound0, 0, 1)
    /\ InitHosts(HostsOf(sched))
    /\ ranker = RankerIdle(FleetPrices)

Next ==
    \E p \in Procs :
        \/ LoadNodes(p)
        \/ EnterNodegroup(p)
        \/ LockTimeout(p)
        \/ ProcessNode(p)
        \/ OrphanCleanup(p)
        \/ TransplantLock(p)
        \/ TransplantDonor(p)
        \/ TransplantRecipient(p)
        \/ TransplantUnlock(p)
        \/ Restart(p)

Spec == Init /\ [][Next]_vars

-----------------------------------------------------------------------------
(* update_hosts_file step by step, over a choice of hosts files *)

MaxLines == 2
MaxCalls == 2

\* a name that is not a node of the cluster
Gateway == <<"gw">>

HostNodes == {A0, A1}
HostIps == {NewIp(1), NewIp(2)}

\* Lines the file may hold before the daemons touch it: single-name lines,
\* lines with two names, a line for another machine and an empty line.
PreLines ==
    {HostLine(StaleIp(1), <<n>>) : n \in HostNodes}
      \cup {HostLine(StaleIp(2), <<Gateway, A0>>), HostLine(StaleIp(2), <<A0, Gateway>>),
            HostLine(StaleIp(3), <<Gateway>>), HostLine(None, <<>>)}

\* the lines of a file that name n, in whatever column
NamingLines(file, n) ==
    {j \in 1..Len(file) : \E c \in 1..Len(file[j].names) : file[j].names[c] = n}

\* files of at most MaxLines lines with at most one line per node name
HostFiles ==
    {f \in UNION {[1..len -> PreLines] : len \in 0..MaxLines} :
        \A n \in HostNodes : Cardinality(NamingLines(f, n)) <= 1}

HostsCalls == hp["d1"].calls + hp["d2"].calls

FleetIdle == UNCHANGED <<sched, inst, spot, lock, proc, faults, ranker>>

\* line 20: a daemon calls update_hosts_file(node_name, ip)
HostsCall(p) ==
    /\ hp[p].pc = "idle"
    /\ HostsCalls < MaxCalls
    /\ \E n \in HostNodes, ip \in HostIps :
         hp' = [hp EXCEPT ![p] = [@ EXCEPT !.pc = "wait", !.node = n, !.ip = ip,
                                           !.entries = <<>>, !.calls = @ + 1,
                                           !.outcome = "none"]]
    /\ UNCHANGED <<hosts, hlock, written>>
    /\ FleetIdle

\* a companion lock that never keeps anybody out
HostsLockFree_Always(p) == TRUE
\* lines 22-23: /etc/hosts.lock can be taken when no other process holds it
HostsLockFree(p) == hlock = NoProc

\* line 23: `with lock:` takes the companion lock
HostsAcquire(p) ==
    /\ hp[p].pc = "wait"
    /\ HostsLockFree(p)
    /\ hlock' = p
    /\ hp' = [hp EXCEPT ![p] = [@ EXCEPT !.pc = "read"]]
    /\ UNCHANGED <<hosts, written>>
    /\ FleetIdle

\* lines 46-47: the lock was held for the whole timeout; the call returns
HostsTimeout(p) ==
    /\ hp[p].pc = "wait"
    /\ hlock \notin {NoProc, p}
    /\ hp' = [hp EXCEPT ![p] = [@ EXCEPT !.pc = "idle", !.outcome = "timeout"]]
    /\ UNCHANGED <<hosts, hlock, written>>
    /\ FleetIdle

\* lines 24-41: the file is read and the new list of lines is built
HostsRead(p) ==
    /\ hp[p].pc = "read"
    /\ hp' = [hp EXCEPT ![p] = [@ EXCEPT !.pc = "write",
                                         !.entries = Rewritten(hosts, hp[p].node, hp[p].ip)]]
    /\ UNCHANGED <<hosts, hlock, written>>
    /\ FleetIdle

\* lines 42-44: the file is written and the `with` block releases the lock
HostsWrite(p) ==
    /\ hp[p].pc = "write"
    /\ hosts' = hp[p].entries
    /\ written' = [written EXCEPT ![hp[p].node] = hp[p].ip]
    /\ hlock' = IF hlock = p THEN NoProc ELSE hlock
    /\ hp' = [hp EXCEPT ![p] = [@ EXCEPT !.pc = "idle", !.outcome = "written"]]
    /\ FleetIdle

HostsInit ==
    /\ InitWith(TRUE, PoweredDown, PoweredDown, PoweredDown, FALSE, FALSE, {}, 0, 1)
    /\ \E file \in HostFiles : InitHosts(file)
    /\ ranker = RankerIdle(FleetPrices)

HostsNext ==
    \E p \in Procs :
        \/ HostsCall(p)
        \/ HostsAcquire(p)
        \/ HostsTimeout(p)
        \/ HostsRead(p)
        \/ HostsWrite(p)

HostsSpec == HostsInit /\ [][HostsNext]_vars

\* ---------------------------------------------------------------------
\* The sweep with the two polling loops of transplate_spot_to_od taken one
\* iteration at a time.
\* ---------------------------------------------------------------------

\* line 609, range(0, 60), and line 633, range(0, 40)
ReachabilityPolls == 60
StoppedPolls == 40

\* the for loop ends after iteration i (counted from 0) of n
LastPoll_Never(i, n) == FALSE
LastPoll(i, n) == i + 1 >= n

\* lines 609-617: one iteration of the reachability poll.  passed: whether
\* the status check lists the recipient.
WaitReachable(p) ==
    LET pr == proc[p]
    IN /\ pr.pc = "t_recipient"
       /\ \E bad \in FaultSets({"describe_instance_status"}), passed \in BOOLEAN :
            LET w == PollReachable(World(p, "transplant", pr.tp[pr.ti][1]), pr.recipient, bad)
                leave == (passed /\ bad = {}) \/ LastPoll(pr.reach, ReachabilityPolls)
            IN /\ bad # {} => ~passed
               /\ faults' = faults - Cardinality(bad)
               /\ inst' = w.inst
               /\ proc' = [proc EXCEPT ![p] =
                            [Keep(pr, w) EXCEPT !.reach = @ + 1,
                                                !.pc = IF leave THEN "t_stop" ELSE @]]
       /\ UNCHANGED <<sched, spot, lock, hosts, hlock, hp, written, ranker>>

\* lines 623-627
HibernateRecipient(p) ==
    LET pr == proc[p]
    IN /\ pr.pc = "t_stop"
       /\ \E bad \in FaultSets({"stop_instances"}) :
            LET w == StopRecipient(World(p, "transplant", pr.tp[pr.ti][1]), pr.recipient, bad)
            IN /\ faults' = faults - Cardinality(bad)
               /\ inst' = w.inst
               /\ proc' = [proc EXCEPT ![p] =
                            [Keep(pr, w) EXCEPT
                               !.pc = IF bad # {} THEN "t_unlock" ELSE "t_wait"]]
       /\ UNCHANGED <<sched, spot, lock, hosts, hlock, hp, written, ranker>>

\* lines 633-647: one iteration of the wait for "stopped".  hib: whether the
\* recipient has reached "stopped" by now; a stopped recipient stays stopped.
WaitStopped(p) ==
    LET pr == proc[p]
    IN /\ pr.pc = "t_wait"
       /\ \E bad \in FaultSets({"describe_instances"}), hib \in BOOLEAN :
            LET w == PollStopped(World(p, "transplant", pr.tp[pr.ti][1]), pr.recipient,
                                 bad, hib)
                recipient_hibernated == hib /\ bad = {}
                leave == recipient_hibernated \/ LastPoll(pr.waited, StoppedPolls)
            IN /\ inst[pr.recipient].state = "stopped" => hib
               /\ faults' = faults - Cardinality(bad)
               /\ inst' = w.inst
               /\ proc' = [proc EXCEPT ![p] =
                            [Keep(pr, w) EXCEPT !.waited = @ + 1,
                                                !.pc = IF leave THEN "t_finish" ELSE @]]
       /\ UNCHANGED <<sched, spot, lock, hosts, hlock, hp, written, ranker>>

\* lines 650-706
FinishTransplant(p) ==
    LET pr == proc[p]
    IN /\ pr.pc = "t_finish"
       /\ \E bad \in FaultSets({"modify_network_interface_attribute", "detach_volume",
                                "attach_volume", "start_instances", "delete_volume"}) :
            LET w == FinishRecipient(World(p, "transplant", pr.tp[pr.ti][1]),
                                     pr.tp[pr.ti][1], pr.recipient, bad)
            IN /\ faults' = faults - Cardinality(bad)
               /\ sched' = w.sched /\ inst' = w.inst
               /\ proc' = [proc EXCEPT ![p] = [Keep(pr, w) EXCEPT !.pc = "t_unlock"]]
       /\ UNCHANGED <<spot, lock, hosts, hlock, hp, written, ranker>>

\* One daemon over a fleet with a node to transplant and a provider that
\* answers every call; or the narrower choice of node tables without a
\* transplant, one daemon with provider faults and reruns or two daemons.
PollInit ==
    /\ \/ \E b0 \in SmallB0 :
            InitWith(FALSE, Hibernated45, Up, b0, FALSE, FALSE,
                     {"node_name", "instance_id"}, 0, 1)
       \/ \E a0 \in SmallA0, a1 \in SmallA1, b0 \in SmallB0, o \in BOOLEAN :
            \/ InitWith(FALSE, a0, a1, b0, o, o, {}, MaxFaults, MaxRuns)
            \/ InitWith(TRUE, a0, a1, b0, o, o, {}, 0, 1)
    /\ InitHosts(HostsOf(sched))
    /\ ranker = RankerIdle(FleetPrices)

\* a step of the daemon p
PollStep(p) ==
    \/ LoadNodes(p)
    \/ EnterNodegroup(p)
    \/ LockTimeout(p)
    \/ ProcessNode(p)
    \/ OrphanCleanup(p)
    \/ TransplantLock(p)
    \/ TransplantDonor(p)
    \/ WaitReachable(p)
    \/ HibernateRecipient(p)
    \/ WaitStopped(p)
    \/ FinishTransplant(p)
    \/ TransplantUnlock(p)

PollNext ==
    \E p \in Procs :
        \/ PollStep(p)
        \/ Restart(p)

\* A started daemon runs on: the interpreter executes the next statement, a
\* provider call returns or raises, a lock attempt succeeds or times out and
\* a sleep ends.
PollSpec == PollInit /\ [][PollNext]_vars /\ \A p \in Procs : WF_vars(PollStep(p))

\* ---------------------------------------------------------------------
\* The sweep with a scheduler command that may fail to start: the
\* update_node that publishes a new instance can raise.
\* ---------------------------------------------------------------------

AcquireNode(p) == ProcessNodeWith(p, NodeApis \cup {"publish"})

\* one daemon with provider faults and reruns, or two daemons, over the
\* narrower choice of node tables
AcquireInit ==
    /\ \E a0 \in SmallA0, a1 \in SmallA1, b0 \in SmallB0, o \in BOOLEAN,
          bound0 \in Namespaces :
            \/ InitWith(FALSE, a0, a1, b0, o, o, bound0, MaxFaults, MaxRuns)
            \/ InitWith(TRUE, a0, a1, b0, o, o, bound0, 0, 1)
    /\ InitHosts(HostsOf(sched))
    /\ ranker = RankerIdle(FleetPrices)

AcquireNext ==
    \E p \in Procs :
        \/ LoadNodes(p)
        \/ EnterNodegroup(p)
        \/ LockTimeout(p)
        \/ AcquireNode(p)
        \/ OrphanCleanup(p)
        \/ TransplantLock(p)
        \/ TransplantDonor(p)
        \/ TransplantRecipient(p)
        \/ TransplantUnlock(p)
        \/ Restart(p)

AcquireSpec == AcquireInit /\ [][AcquireNext]_vars

\* ---------------------------------------------------------------------
\* A lone daemon run twice by cron over a node that waits for an instance
\* or is booting on one, with two provider failures in the behaviour: the
\* enumeration of a sweep and the run_instances calls of an acquisition can
\* both fail.  The two-daemon start is that of Init.
\* ---------------------------------------------------------------------

\* a node that was given an instance which is still booting
Booting == NodeCase({"POWERING_UP"}, 2, "live", "pending", TRUE, "ok", NoReason)

RetryInit ==
    /\ \/ \E a0 \in {Acquire, Booting} :
            InitWith(FALSE, a0, Up, PoweredDown, FALSE, FALSE, {}, MaxFaults + 1, MaxRuns)
       \/ \E a0 \in SmallA0, b0 \in SmallB0, bound0 \in Namespaces :
            InitWith(TRUE, a0, Up, b0, FALSE, FALSE, bound0, 0, 1)
    /\ InitHosts(HostsOf(sched))
    /\ ranker = RankerIdle(FleetPrices)

RetrySpec == RetryInit /\ [][Next]_vars

\* ---------------------------------------------------------------------
\* A cluster whose partition also has the nodegroup ng10, with one node
\* p-ng10-0 and, when the node is linked, an instance tagged for ng10.  The
\* provider answers every call; the sweeps are those of ng1 and ng2, by one
\* daemon run again by cron or by two daemons started together.
\* ---------------------------------------------------------------------

PrefixC0 == { Up, PoweredDown, Acquire, Release }

PrefixInit ==
    \E two \in BOOLEAN, a0 \in SmallA0, c0 \in PrefixC0 :
        /\ sched = [n \in NodeNames \cup {C0} |->
                      IF n = A0 THEN NodeRec(a0, 1)
                      ELSE IF n = A1 THEN NodeRec(Up, 2)
                      ELSE IF n = C0 THEN NodeRec(c0, 4)
                      ELSE NodeRec(PoweredDown, 3)]
        /\ inst = [i \in Ids |->
                     IF i = 1 THEN InstRec(a0, 1, NG1)
                     ELSE IF i = 2 THEN InstRec(Up, 2, NG1)
                     ELSE IF i = 4 THEN InstRec(c0, 4, NG10)
                     ELSE NoInstance]
        /\ spot = [r \in SpotIds |->
                     IF r = 1 THEN SpotRec(a0, 1, NG1)
                     ELSE IF r = 2 THEN SpotRec(Up, 2, NG1)
                     ELSE IF r = 4 THEN SpotRec(c0, 4, NG10)
                     ELSE NoSpot]
        /\ lock = [g \in {NG1, NG2} |-> NoProc]
        /\ proc = [p \in Procs |->
                     InitProc(two \/ p = "d1", {"node_name", "instance_id"},
                              IF two THEN 1 ELSE MaxRuns)]
        /\ faults = 0
        /\ hosts = HostsOf(sched)
                     \o (IF sched[C0].NodeAddr # None
                         THEN <<HostLine(sched[C0].NodeAddr, <<C0>>)>> ELSE <<>>)
        /\ hlock = NoProc
        /\ hp = [p \in Procs |-> HostsIdle]
        /\ written = [n \in NodeNames \cup {C0} |-> None]
        /\ ranker = RankerIdle(FleetPrices)

PrefixSpec == PrefixInit /\ [][Next]_vars

\* ---------------------------------------------------------------------
\* Two daemons started together over a node that waits for an instance,
\* with a provider call that may fail; or one daemon run again by cron with
\* a provider that answers every call.
\* ---------------------------------------------------------------------

StaleInit ==
    /\ \/ InitWith(TRUE, Acquire, Up, PoweredDown, FALSE, FALSE, {}, MaxFaults, 1)
       \/ \E a0 \in SmallA0, bound0 \in Namespaces :
            InitWith(FALSE, a0, Up, PoweredDown, FALSE, FALSE, bound0, 0, MaxRuns)
    /\ InitHosts(HostsOf(sched))
    /\ ranker = RankerIdle(FleetPrices)

StaleSpec == StaleInit /\ [][Next]_vars

\* ---------------------------------------------------------------------
\* A lone daemon started again and again by cron over powered down nodes
\* that are still linked to live instances, with provider calls that may
\* fail.  cron keeps starting the daemon and a started daemon keeps running.
\* ---------------------------------------------------------------------

ReleaseOnDemand == NodeCase({"IDLE", "POWERED_DOWN"}, 2, "live", "running", FALSE, "ok", NoReason)
ReleaseStopped == NodeCase({"POWERED_DOWN"}, 2, "live", "stopped", TRUE, "ok", Min10)

ReleaseInit ==
    /\ \E a0 \in {Release, ReleaseOnDemand, ReleaseStopped}, a1 \in {Up, Release},
          b0 \in {PoweredDown, Release}, o \in BOOLEAN :
            InitWith(FALSE, a0, a1, b0, o, o, {}, MaxFaults, MaxRuns)
    /\ InitHosts(HostsOf(sched))
    /\ ranker = RankerIdle(FleetPrices)

ReleaseNext ==
    \E p \in Procs :
        \/ LoadNodes(p)
        \/ EnterNodegroup(p)
        \/ ProcessNode(p)
        \/ OrphanCleanup(p)
        \/ Restart(p)

\* ReleaseNext is enabled exactly when the daemon is inside an invocation or
\* cron has an invocation left to start
Running ==
    \E p \in Procs :
        \/ proc[p].pc \in {"load", "lock", "pass"}
        \/ proc[p].pc \in {"done", "crashed"} /\ proc[p].runs < proc[p].maxruns

\* weak fairness of the daemon's steps, WF_vars(ReleaseNext), with
\* ENABLED <<ReleaseNext>>_vars written out as Running: a started daemon
\* runs to the end of its invocation and cron starts the next one
ReleaseFair == []<>(~Running) \/ []<><<ReleaseNext>>_vars

ReleaseSpec == ReleaseInit /\ [][ReleaseNext]_vars /\ ReleaseFair

\* ---------------------------------------------------------------------
\* One sweep of a lone daemon over hibernated nodes, for every form of
\* StateTransitionReason, hosts whose clock is not the provider's, and a
\* nodegroup without MaxHibernationMin.
\* ---------------------------------------------------------------------

\* a host two hours ahead of UTC and a host one hour behind
AgeReasons ==
    { Reason("none", 0), Reason("empty", 0), Reason("garbage", 0), Min10, Min45,
      Reason("ts", DaySeconds + 10 * 60),
      Skewed(Min10, 2 * 3600), Skewed(Min10, -3600) }

AgeA0 ==
    { NodeCase({"IDLE"}, 2, "live", "stopped", TRUE, "ok", r) : r \in AgeReasons }
    \cup { NodeCase({"IDLE", "DRAIN"}, 2, "live", "stopping", TRUE, "ok", Min45),
           NodeCase({"IDLE"}, 2, "live", "pending", TRUE, "ok", Min45) }
AgeB0 == { PoweredDown, NodeCase({"IDLE"}, 1, "live", "stopped", FALSE, "ok", Min45) }

AgeInit ==
    /\ \E a0 \in AgeA0, a1 \in RichA1, b0 \in AgeB0, bound0 \in Namespaces :
            InitWith(FALSE, a0, a1, b0, FALSE, FALSE, bound0, 0, 1)
    /\ InitHosts(HostsOf(sched))
    /\ ranker = RankerIdle(FleetPrices)

AgeNext ==
    \E p \in Procs :
        \/ LoadNodes(p)
        \/ EnterNodegroup(p)
        \/ ProcessNode(p)
        \/ OrphanCleanup(p)
        \/ TransplantLock(p)
        \/ TransplantDonor(p)
        \/ TransplantRecipient(p)
        \/ TransplantUnlock(p)

AgeSpec == AgeInit /\ [][AgeNext]_vars

\* ---------------------------------------------------------------------
\* One sweep of a lone daemon over hibernated nodes with a provider that
\* may resume the donor of a transplant while the workflow runs.
\* ---------------------------------------------------------------------

TransplantResumable(p) == TransplantDonorWith(p, BOOLEAN)

DonorNext ==
    \E p \in Procs :
        \/ LoadNodes(p)
        \/ EnterNodegroup(p)
        \/ ProcessNode(p)
        \/ OrphanCleanup(p)
        \/ TransplantLock(p)
        \/ TransplantResumable(p)
        \/ TransplantRecipient(p)
        \/ TransplantUnlock(p)

DonorSpec == AgeInit /\ [][DonorNext]_vars

\* ---------------------------------------------------------------------
\* get_instance_priority on its own: a call with any short list of types,
\* any price list, and the strategies the configuration above uses.
\* ---------------------------------------------------------------------

\* the longest Instances list of a call
MaxRankLen == 3

RECURSIVE SeqsUpTo(_, _)
SeqsUpTo(S, n) ==
    IF n = 0 THEN {<<>>}
    ELSE LET shorter == SeqsUpTo(S, n - 1)
         IN shorter \cup {Append(q, x) : q \in shorter, x \in S}

RankStrategies == {"rank", "lowest-price"}
RankOptions == {"spot", "on-demand"}
RankPrices == [RankTypes -> {None, 1, 2}]

RankInit ==
    /\ InitWith(FALSE, PoweredDown, PoweredDown, PoweredDown, FALSE, FALSE, {}, 0, 1)
    /\ InitHosts(HostsOf(sched))
    /\ \E prices \in RankPrices, instances \in SeqsUpTo(RankTypes, MaxRankLen),
          strategy \in RankStrategies, option \in RankOptions :
            ranker = [RankerIdle(prices) EXCEPT !.instances = instances,
                                                !.strategy = strategy,
                                                !.option = option]

\* line 734: instance_rank = get_instance_priority(...)
RankCall ==
    /\ ranker.pc = "idle"
    /\ LET raises == RankingRaises(ranker.instances, ranker.strategy, ranker.option)
       IN ranker' = [ranker EXCEPT
                        !.pc = "done",
                        !.raised = raises,
                        !.out = IF raises THEN <<>>
                                ELSE get_instance_priority(ranker.instances,
                                                           ranker.strategy, ranker.option)]
    /\ UNCHANGED <<sched, inst, spot, lock, proc, faults, hosts, hlock, hp, written>>

RankNext == RankCall

RankSpec == RankInit /\ [][RankNext]_vars

-----------------------------------------------------------------------------
(* Properties *)

\* p is the only daemon of the behaviour
Solo(p) == \A q \in Procs \ {p} : proc[q].pc = "off"

Entries(p) == 1..Len(proc[p].log)
IsMutation(e) == e.t = "sched" \/ e.api \in MutatingApis
Mutations(p) == {j \in Entries(p) : IsMutation(proc[p].log[j])}

\* the program counters of the transplant loop (lines 760-769)
WorkflowPcs == {"t_donor", "t_recipient", "t_unlock"}
TransplantPcs == {"t_lock"} \cup WorkflowPcs

\* the ids the comments of the nodegroup's nodes hold in the sweep's node data
CommentNodes(pr) ==
    {pr.nodes[j] : j \in {j \in 1..Len(pr.nodes) : pr.info[pr.nodes[j]].HasComment}}
ReferencedInstances(pr) == {pr.info[n].InstanceId : n \in CommentNodes(pr)} \ {None}
ReferencedSpots(pr) == {pr.info[n].SpotId : n \in CommentNodes(pr)} \ {None}

\* the targets of the calls of one API that one part of the last sweep made
Targets(pr, phases, api) ==
    {pr.log[j].tgt : j \in {j \in 1..Len(pr.log) :
                              /\ pr.log[j].g = pr.eg
                              /\ pr.log[j].ph \in phases
                              /\ pr.log[j].api = api}}

OrphanPhases == {"orphan_instances", "orphan_spot"}

-----------------------------------------------------------------------------
\* C1: for a node whose Weight is 0 in the node data the invocation loaded,
\* process_fleet_nodes issues no scheduler update and no provider call and
\* schedules no transplant.
C1_WeightZeroSkipped ==
    \A p \in Procs :
        /\ \A j \in Entries(p) :
             proc[p].log[j].ph = "pass" => proc[p].info[proc[p].log[j].node].Weight # 0
        /\ \A j \in 1..Len(proc[p].tp) :
             proc[p].pc # "off" => proc[p].info[proc[p].tp[j][1]].Weight # 0

-----------------------------------------------------------------------------
\* C2: once the transplant loop has issued weight=0 for a node and has left
\* the workflow for that node (by completion, by an early return or by an
\* exception), the last update of the node's weight it issued is weight=1.
SetsWeight(p, n) ==
    {j \in Entries(p) : proc[p].log[j].node = n /\ proc[p].log[j].t = "sched"
                        /\ proc[p].log[j].arg >= 0}
LastOf(S) == CHOOSE j \in S : \A k \in S : k <= j
Marked(p, n) ==
    \E j \in Entries(p) : /\ proc[p].log[j].node = n /\ proc[p].log[j].api = "weight"
                          /\ proc[p].log[j].arg = 0
InWorkflow(p, n) == proc[p].pc \in WorkflowPcs /\ proc[p].tp[proc[p].ti][1] = n

C2_WeightRestored ==
    \A p \in Procs, n \in NodeNames :
        (Marked(p, n) /\ ~InWorkflow(p, n))
            => proc[p].log[LastOf(SetsWeight(p, n))].arg = 1

\* the workflow was left by an exception and the weight is back at 1
C2_Witness ==
    \E p \in Procs, n \in NodeNames :
        /\ proc[p].pc = "crashed" /\ proc[p].raising
        /\ Marked(p, n)
        /\ proc[p].log[LastOf(SetsWeight(p, n))].arg = 1

-----------------------------------------------------------------------------
\* C3: no two processes are at once inside the per-node pass or the orphan
\* cleanup of one nodegroup, and a process inside them holds the nodegroup's
\* lock; processes on different nodegroups run side by side (the witness).
C3_MutualExclusion ==
    /\ \A p \in Procs :
         proc[p].pc = "pass" => lock[NodegroupSeq[proc[p].gi]] = p
    /\ \A p, q \in Procs :
         (p # q /\ proc[p].pc = "pass" /\ proc[q].pc = "pass")
             => proc[p].gi # proc[q].gi

\* two processes inside the pass of two different nodegroups
C3_Witness ==
    \E p, q \in Procs :
        /\ p # q /\ proc[p].pc = "pass" /\ proc[q].pc = "pass"
        /\ proc[p].gi # proc[q].gi
        /\ proc[p].ni > 1 /\ proc[q].ni > 1

-----------------------------------------------------------------------------
-----------------------------------------------------------------------------
\* C5: a process whose wait for a nodegroup's lock timed out issues nothing
\* for that nodegroup in the invocation, has moved on past it, and an
\* invocation that ends has swept every nodegroup it did not skip.
AllGroups == 1..Len(NodegroupSeq)

C5_TimeoutSkipsNodegroup ==
    \A p \in Procs :
        /\ \A j \in Entries(p) : proc[p].log[j].g \notin proc[p].skipped
        /\ \A gi \in proc[p].skipped : proc[p].gi > gi \/ proc[p].pc = "done"
        /\ proc[p].pc = "done" =>
             /\ proc[p].swept \cup proc[p].skipped = AllGroups
             /\ proc[p].swept \cap proc[p].skipped = {}

\* an invocation that skipped one nodegroup and swept another, with mutations
C5_Witness ==
    \E p \in Procs :
        /\ proc[p].pc = "done"
        /\ proc[p].skipped # {} /\ proc[p].swept # {}
        /\ Mutations(p) # {}

-----------------------------------------------------------------------------
\* C6: the loop over the orphan instances (lines 749-750) calls
\* terminate_instances on exactly the instances of the nodegroup's instance
\* map that the comment of no node of the nodegroup names, and neither orphan
\* loop calls it on an instance some node's comment names.
C6_OrphanInstancesExact ==
    \A p \in Procs :
        proc[p].cleaned =>
            /\ Targets(proc[p], {"orphan_instances"}, "terminate_instances")
                 = DOMAIN proc[p].instances \ ReferencedInstances(proc[p])
            /\ Targets(proc[p], OrphanPhases, "terminate_instances")
                 \cap ReferencedInstances(proc[p]) = {}

\* a cleanup that terminated an orphan and spared a referenced instance
C6_Witness ==
    \E p \in Procs :
        /\ proc[p].cleaned
        /\ Targets(proc[p], {"orphan_instances"}, "terminate_instances") # {}
        /\ DOMAIN proc[p].instances \cap ReferencedInstances(proc[p]) # {}

-----------------------------------------------------------------------------
\* C7: the loop over the orphan spot requests (lines 755-756) cancels exactly
\* the open or active spot requests of the nodegroup that the comment of no
\* node of the nodegroup names, and neither orphan loop cancels a request
\* some node's comment names.
C7_OrphanSpotsExact ==
    \A p \in Procs :
        proc[p].cleaned =>
            /\ Targets(proc[p], {"orphan_spot"}, "cancel_spot_instance_requests")
                 = proc[p].spot_requests \ ReferencedSpots(proc[p])
            /\ Targets(proc[p], OrphanPhases, "cancel_spot_instance_requests")
                 \cap ReferencedSpots(proc[p]) = {}

\* a cleanup that cancelled an orphan request and spared a referenced one
C7_Witness ==
    \E p \in Procs :
        /\ proc[p].cleaned
        /\ Targets(proc[p], {"orphan_spot"}, "cancel_spot_instance_requests") # {}
        /\ proc[p].spot_requests \cap ReferencedSpots(proc[p]) # {}

-----------------------------------------------------------------------------
\* C8: after an invocation that swept every nodegroup with every provider
\* call succeeding, every listed instance of a nodegroup is named by the
\* comment of exactly one node, and so is every open or active spot request.
Referrers(g, i) ==
    {n \in NodesOfGroup(g) : sched[n].HasComment /\ sched[n].InstanceId = i}
SpotReferrers(g, r) ==
    {n \in NodesOfGroup(g) : sched[n].HasComment /\ sched[n].SpotId = r}

OrphanClosure ==
    \A g \in Nodegroups :
        /\ \A i \in InstancesOf(nodegroup_prefix(g)) : Cardinality(Referrers(g, i)) = 1
        /\ \A r \in SpotRequestsOf(nodegroup_prefix(g)) : Cardinality(SpotReferrers(g, r)) = 1

C8_OrphanClosure ==
    \A p \in Procs :
        (Solo(p) /\ proc[p].pc = "done" /\ ~proc[p].failed /\ proc[p].skipped = {})
            => OrphanClosure

-----------------------------------------------------------------------------
-----------------------------------------------------------------------------
\* C10 as stated: the second of two consecutive complete invocations of a
\* lone daemon issues no scheduler update and no mutating provider call
\* (checked for a first invocation whose provider calls all succeeded).
C10_SecondSweepSilent ==
    \A p \in Procs :
        (/\ Solo(p) /\ proc[p].runs = 2
         /\ proc[p].prev = "done" /\ ~proc[p].prevfailed
         /\ proc[p].pc = "done" /\ ~proc[p].failed)
            => Mutations(p) = {}

\* C10 amended: an invocation of a lone daemon that starts from a converged
\* fleet and whose provider calls all succeed issues no scheduler update and
\* no mutating provider call, and so does the one after it.
C10_ConvergedSilent ==
    \A p \in Procs :
        (Solo(p) /\ proc[p].converged /\ ~proc[p].failed) => Mutations(p) = {}

\* two complete invocations from a converged fleet, the second one over
C10_Witness ==
    \E p \in Procs :
        /\ Solo(p) /\ proc[p].converged /\ ~proc[p].failed
        /\ proc[p].runs = 2 /\ proc[p].prev = "done" /\ proc[p].pc = "done"
        /\ proc[p].swept = AllGroups

-----------------------------------------------------------------------------
\* the nodes of the last nodegroup entered that the pass found linked: the
\* comment names an instance of the instance map
LinkedNodes(pr) ==
    {n \in CommentNodes(pr) : pr.info[n].InstanceId \in DOMAIN pr.instances}
\* the rows of lines 190 and 193, which come before everything else
ResetRow(na) ==
    "POWERED_DOWN" \in na.State /\ ("DOWN" \in na.State \/ "DRAIN" \in na.State)
PassCalls(pr, n, api) ==
    {j \in 1..Len(pr.log) : /\ pr.log[j].g = pr.eg /\ pr.log[j].ph = "pass"
                            /\ pr.log[j].node = n /\ pr.log[j].api = api}

\* C11 as stated: after the pass of a lone daemon, every node the pass found
\* linked has the address of its instance.
C11_AddressCoherence ==
    \A p \in Procs :
        (Solo(p) /\ proc[p].cleaned) =>
            \A n \in LinkedNodes(proc[p]) :
                sched[n].NodeAddr = proc[p].instances[proc[p].info[n].InstanceId].ip

\* C11 amended: after the pass of a lone daemon, every node the pass found
\* linked and neither DOWN+POWERED_DOWN nor DRAIN+POWERED_DOWN has the
\* address of its instance, and it received nodeaddr=<ip> exactly when its
\* address was another one.
C11_AddressCoherenceLinkedRows ==
    \A p \in Procs :
        (Solo(p) /\ proc[p].cleaned) =>
            \A n \in LinkedNodes(proc[p]) :
                LET na == proc[p].info[n]
                    ip == proc[p].instances[na.InstanceId].ip
                IN /\ ~ResetRow(na) =>
                        /\ sched[n].NodeAddr = ip
                        /\ (na.NodeAddr # ip) <=> (PassCalls(proc[p], n, "nodeaddr") # {})
                   /\ ResetRow(na) => PassCalls(proc[p], n, "nodeaddr") = {}

\* a pass that found a linked node at a stale address and repaired it
C11_Witness ==
    \E p \in Procs :
        /\ Solo(p) /\ proc[p].cleaned
        /\ \E n \in LinkedNodes(proc[p]) :
             /\ ~ResetRow(proc[p].info[n])
             /\ proc[p].info[n].NodeAddr # proc[p].instances[proc[p].info[n].InstanceId].ip
             /\ sched[n].NodeAddr = proc[p].instances[proc[p].info[n].InstanceId].ip

-----------------------------------------------------------------------------
(* The hosts file *)

\* C12: starting from a file with at most one line per node name, after any
\* sequence of update_hosts_file calls the file holds at most one line naming
\* each node, and that line carries the address written last.
C12_OneLinePerName ==
    \A n \in HostNodes :
        /\ Cardinality(NamingLines(hosts, n)) <= 1
        /\ written[n] # None =>
             \E j \in NamingLines(hosts, n) : hosts[j].ip = written[n]

InsideHosts(p) == hp[p].pc \in {"read", "write"}

\* the entry a process wrote last for a node is in the file
NoEntryLost ==
    \A n \in HostNodes :
        written[n] # None =>
            \E j \in 1..Len(hosts) : hosts[j] = HostLine(written[n], <<n>>)

HostsExclusion ==
    \A p \in Procs :
        InsideHosts(p) => (hlock = p /\ \A q \in Procs \ {p} : ~InsideHosts(q))

TimeoutLeavesFile ==
    \A p \in Procs :
        (hp[p].pc = "wait" /\ hp'[p].outcome = "timeout")
            => (hosts' = hosts /\ hp'[p].pc = "idle")

\* C13: at most one process is between the read and the rewrite of the hosts
\* file, and it holds the companion lock; the entry written last for a node
\* is never lost through another process's rewrite; a call whose lock times
\* out leaves the file as it is and returns to its caller.
C13_HostsSerialized == [](HostsExclusion /\ NoEntryLost) /\ [][TimeoutLeavesFile]_vars

\* one daemon gave up on the lock while the other one rewrote the file, and
\* both are back in their callers
C13_Witness ==
    \E p, q \in Procs :
        /\ hp[p].pc = "idle" /\ hp[p].outcome = "timeout"
        /\ hp[q].pc = "idle" /\ hp[q].outcome = "written"
        /\ NoEntryLost

-----------------------------------------------------------------------------
(* The rows of the decision table, node by node *)

\* the calls the pass made for node n
PassEntries(pr, n) ==
    {j \in 1..Len(pr.log) : pr.log[j].ph = "pass" /\ pr.log[j].node = n}
PassSched(pr, n) == {j \in PassEntries(pr, n) : pr.log[j].t = "sched"}
PassCloud(pr, n) == {j \in PassEntries(pr, n) : pr.log[j].api \in MutatingApis}
PassApi(pr, n, api) == {j \in PassEntries(pr, n) : pr.log[j].api = api}

ForceStuckKind == "state=POWER_DOWN_FORCE reason=node_stuck"
\* the updates of the if/elif chain of lines 190-245
ChainUpdates(pr, n) ==
    {j \in PassSched(pr, n) : pr.log[j].api \notin {ForceStuckKind, "nodeaddr"}}

\* the pass has worked through node n in the nodegroup it is sweeping
Processed(pr, n) ==
    /\ pr.pc \in {"pass"} \cup TransplantPcs
    /\ pr.eg = pr.gi
    /\ \E j \in 1..Len(pr.nodes) : pr.nodes[j] = n /\ (pr.cleaned \/ j < pr.ni)

StuckCompleting(na) ==
    "COMPLETING" \in na.State /\ ("DRAIN" \in na.State \/ "NOT_RESPONDING" \in na.State)

-----------------------------------------------------------------------------
(* Acquisition *)

\* the run_instances calls of the acquisition that returned an instance
Acquired(pr) ==
    {j \in 1..Len(pr.log) :
        pr.log[j].ph = "pass" /\ pr.log[j].api = "run_instances" /\ pr.log[j].ok}

\* entry j + 1 is the one update the node receives: address, comment and weight
PublishedAfter(pr, j) ==
    LET run == pr.log[j]
        spotted == run.att.mode = "spot"
    IN /\ j + 1 <= Len(pr.log)
       /\ pr.log[j + 1].t = "sched" /\ pr.log[j + 1].api = "publish"
       /\ pr.log[j + 1].node = run.node
       /\ pr.log[j + 1].ip = NewIp(run.tgt)
       /\ pr.log[j + 1].tgt = run.tgt
       /\ pr.log[j + 1].sid = (IF spotted THEN run.tgt ELSE None)
       /\ pr.log[j + 1].arg = (IF spotted THEN 2 ELSE 1)
       /\ {i \in PassSched(pr, run.node) : pr.log[i].g = run.g} = {j + 1}

\* entry j + 2 is the call of update_hosts_file for the node and the address
HostsCalledAfter(pr, j) ==
    /\ j + 2 <= Len(pr.log)
    /\ pr.log[j + 2].api = "update_hosts_file"
    /\ pr.log[j + 2].node = pr.log[j].node
    /\ pr.log[j + 2].ip = NewIp(pr.log[j].tgt)

\* the file holds the line of the last call that wrote for the node
HostsLineWritten(pr, j) ==
    written[pr.log[j].node] = pr.log[j].ip
        => \E l \in 1..Len(hosts) : hosts[l] = HostLine(pr.log[j].ip, <<pr.log[j].node>>)

-----------------------------------------------------------------------------
(* Fallback from spot to on-demand *)

PairOf(att) == <<att.type, att.subnet>>

\* the (type, subnet) pairs of a nodegroup's configuration
ConfigPairs(config) ==
    {<<config.Instances[i], config.SubnetIds[j]>> :
        i \in 1..Len(config.Instances), j \in 1..Len(config.SubnetIds)}

\* the run_instances calls the pass made for node n in a given mode
RunsOf(pr, n, mode) ==
    {j \in PassApi(pr, n, "run_instances") : pr.log[j].att.mode = mode}

-----------------------------------------------------------------------------
(* Power down *)

PoweredDownRow(na) ==
    ("POWERED_DOWN" \in na.State \/ "POWERING_DOWN" \in na.State) /\ ~ResetRow(na)

\* the calls of the pass for node n, up to the rows of lines 246-252
ChainCalls(pr, n) ==
    {j \in PassEntries(pr, n) : pr.log[j].api \notin {ForceStuckKind, "nodeaddr"}}

\* C17: for a linked node that is POWERED_DOWN or POWERING_DOWN and in neither
\* reset row, the pass calls terminate_instances for the linked instance, then
\* cancel_spot_instance_requests for its spot request if it has one, then
\* clears the comment, when the instance is not terminated or stopping; when
\* it is, the pass makes none of the three calls.
C17_PowerDownTerminatesThenClears ==
    \A p \in Procs : \A n \in LinkedNodes(proc[p]) :
        LET pr == proc[p]
            id == pr.info[n].InstanceId
            ia == pr.instances[id]
            calls == ChainCalls(pr, n)
            first == CHOOSE j \in calls : \A i \in calls : j <= i
            last == CHOOSE j \in calls : \A i \in calls : i <= j
        IN (Processed(pr, n) /\ PoweredDownRow(pr.info[n])) =>
             IF ia.state \notin {"terminated", "stopping"}
             THEN /\ Cardinality(calls) = (IF ia.spotId # None THEN 3 ELSE 2)
                  /\ pr.log[first].api = "terminate_instances" /\ pr.log[first].tgt = id
                  /\ ia.spotId # None =>
                       /\ pr.log[first + 1].api = "cancel_spot_instance_requests"
                       /\ pr.log[first + 1].tgt = ia.spotId
                  /\ pr.log[last].api = "comment"
                  /\ pr.log[last].tgt = None /\ pr.log[last].sid = None
             ELSE calls = {}

\* a powered down node linked to a running spot instance has been through
\* the pass: the instance is terminated, the request cancelled, the comment
\* empty
C17_Witness ==
    \E p \in Procs : \E n \in LinkedNodes(proc[p]) :
        /\ Processed(proc[p], n) /\ PoweredDownRow(proc[p].info[n])
        /\ proc[p].instances[proc[p].info[n].InstanceId].state = "running"
        /\ proc[p].instances[proc[p].info[n].InstanceId].spotId # None
        /\ inst[proc[p].info[n].InstanceId].state = "terminated"
        /\ spot[proc[p].info[n].InstanceId].state = "cancelled"
        /\ sched[n].InstanceId = None

-----------------------------------------------------------------------------
(* Hibernation: drain and undrain *)

DrainKind == "state=DRAIN reason=instance_hibernated"

\* the pass has made its calls for node n: it has moved on, or it stopped at
\* n with an exception
Worked(pr, n) ==
    \/ Processed(pr, n)
    \/ /\ pr.pc = "crashed" /\ ~pr.cleaned /\ pr.eg = pr.gi
       /\ pr.ni <= Len(pr.nodes) /\ pr.nodes[pr.ni] = n

Drained(pr, n) == Cardinality(PassApi(pr, n, DrainKind))
Undrained(pr, n) == Cardinality(PassApi(pr, n, "state=UNDRAIN"))

DrainRows(pr, n) ==
    LET na == pr.info[n]
        stopped == pr.instances[na.InstanceId].state = "stopped"
    IN /\ (stopped /\ "DRAIN" \notin na.State) => (Drained(pr, n) = 1 /\ Undrained(pr, n) = 0)
       /\ (~stopped /\ "DRAIN" \in na.State) => (Drained(pr, n) = 0 /\ Undrained(pr, n) = 1)
       /\ (stopped /\ "DRAIN" \in na.State) => (Drained(pr, n) = 0 /\ Undrained(pr, n) = 0)

\* C18 as stated: every linked node is drained when its instance is stopped
\* and it is not draining, undrained when it is draining and its instance is
\* not stopped, and left alone when it is draining and its instance stopped.
C18_DrainUndrain ==
    \A p \in Procs : \A n \in LinkedNodes(proc[p]) :
        Worked(proc[p], n) => DrainRows(proc[p], n)

\* C18 (amended): the same, for the linked nodes that are neither
\* POWERED_DOWN nor POWERING_DOWN; a powered down node is in an earlier row
\* (reset, or terminate and clear) and is neither drained nor undrained.
C18_DrainUndrainPoweredUp ==
    \A p \in Procs : \A n \in LinkedNodes(proc[p]) :
        LET na == proc[p].info[n]
        IN Worked(proc[p], n) =>
             IF "POWERED_DOWN" \in na.State \/ "POWERING_DOWN" \in na.State
             THEN Drained(proc[p], n) = 0 /\ Undrained(proc[p], n) = 0
             ELSE DrainRows(proc[p], n)

\* in one sweep a draining node with a running instance was undrained and a
\* node with a stopped instance was drained
C18_Witness ==
    \E p \in Procs :
        /\ Worked(proc[p], A0) /\ Worked(proc[p], A1)
        /\ {A0, A1} \subseteq LinkedNodes(proc[p])
        /\ Undrained(proc[p], A0) = 1 /\ "DRAIN" \notin sched[A0].State
        /\ Drained(proc[p], A1) = 1 /\ "DRAIN" \in sched[A1].State

-----------------------------------------------------------------------------
(* Transplant age threshold *)

\* n is linked to a stopped instance whose hibernation age is above the
\* nodegroup's MaxHibernationMin, and no earlier row takes the node
AboveThreshold(pr, n) ==
    LET na == pr.info[n]
        ia == pr.instances[na.InstanceId]
        config == NodegroupAtts(NodegroupSeq[pr.eg])
    IN /\ ~("POWERED_DOWN" \in na.State \/ "POWERING_DOWN" \in na.State)
       /\ ia.state = "stopped"
       /\ config.HasMaxHibernationMin
       /\ ia.reason.fmt = "ts" /\ ia.reason.sec > config.MaxHibernationMin * 60

\* C19: a linked node whose instance has been hibernated for longer than the
\* threshold is put on the transplant list by the pass, its weight goes from
\* 1 to 0 and back to 1, and the sweep does not end before the workflow.
C19_TransplantAboveThreshold ==
    \A p \in Procs : \A n \in LinkedNodes(proc[p]) :
        (Worked(proc[p], n) /\ AboveThreshold(proc[p], n)) =>
            /\ \E j \in 1..Len(proc[p].tp) : proc[p].tp[j][1] = n
            /\ (Marked(p, n) /\ ~InWorkflow(p, n)) =>
                  /\ proc[p].info[n].Weight = 1
                  /\ proc[p].log[LastOf(SetsWeight(p, n))].arg = 1

-----------------------------------------------------------------------------
(* Errors inside a nodegroup *)

\* C20: an error raised while a nodegroup is processed does not end the
\* process; the loop goes on with the next nodegroup, so an invocation that
\* has ended has attempted every nodegroup of the configuration.
C20_ErrorsContained ==
    \A p \in Procs :
        /\ proc[p].pc # "crashed"
        /\ proc[p].pc = "done" => proc[p].swept \cup proc[p].skipped = AllGroups

\* ---------------------------------------------------------------------
\* C21.  The ranker
\* ---------------------------------------------------------------------

Occurrences(q, x) == Cardinality({j \in 1..Len(q) : q[j] = x})

IsPermutation(q, r) ==
    /\ Len(q) = Len(r)
    /\ \A x \in RankTypes : Occurrences(q, x) = Occurrences(r, x)

\* a type without price data costs more than every priced type
CostLeq(x, y) ==
    \/ SpotPrice(y) = None
    \/ SpotPrice(x) # None /\ SpotPrice(x) <= SpotPrice(y)

\* C21: a finished call of get_instance_priority did not raise; with
\* purchasing option spot and strategy lowest-price its result is a
\* permutation of the input in non-decreasing spot price, the types without
\* price data after every priced type; with purchasing option on-demand its
\* result is the input.
C21_RankerOrdersByPrice ==
    ranker.pc = "done" =>
        /\ ~ranker.raised
        /\ ranker.option = "spot" /\ ranker.strategy = "lowest-price" =>
              /\ IsPermutation(ranker.instances, ranker.out)
              /\ \A j \in 1..Len(ranker.out), l \in 1..Len(ranker.out) :
                    j < l => CostLeq(ranker.out[j], ranker.out[l])
        /\ ranker.option = "on-demand" => ranker.out = ranker.instances

\* ---------------------------------------------------------------------
\* C22.  Termination
\* ---------------------------------------------------------------------

NoRepeat(q) == \A j \in 1..Len(q), l \in 1..Len(q) : j # l => q[j] # q[l]

\* the calls of api that the transplant of this invocation made on instance id
PollCalls(pr, api, id) ==
    {j \in 1..Len(pr.log) :
        pr.log[j].ph = "transplant" /\ pr.log[j].api = api /\ pr.log[j].tgt = id}

\* no nodegroup is entered twice in an invocation, no (type, subnet) pair is
\* tried twice for a node in the spot pass or in the on-demand pass, and the
\* two polls stay within their numbers of attempts
C22_Bounded ==
    \A p \in Procs :
        LET pr == proc[p]
        IN /\ NoRepeat(pr.entered)
           /\ \A n \in NodeNames, mode \in {"spot", "on-demand"} :
                 \A j \in RunsOf(pr, n, mode), l \in RunsOf(pr, n, mode) :
                    j # l => PairOf(pr.log[j].att) # PairOf(pr.log[l].att)
           /\ pr.reach <= ReachabilityPolls
           /\ pr.waited <= StoppedPolls
           /\ \A id \in Ids :
                 /\ Cardinality(PollCalls(pr, "describe_instance_status", id))
                        <= ReachabilityPolls
                 /\ Cardinality(PollCalls(pr, "describe_instances", id)) <= StoppedPolls

\* the steps one transplant can take, and one nodegroup
TransplantCost == ReachabilityPolls + StoppedPolls + 6
GroupCost == Cardinality(NodeNames) * (TransplantCost + 1) + 3

\* an upper bound of the steps the invocation has left
StepsLeft(pr) ==
    LET later == (Len(NodegroupSeq) - pr.gi) * GroupCost
        queued == (Len(pr.tp) - pr.ti) * TransplantCost
        all == Cardinality(NodeNames) * TransplantCost
    IN CASE pr.pc = "load" -> Len(NodegroupSeq) * GroupCost + 1
         [] pr.pc = "lock" -> later + all + Cardinality(NodeNames) + 2
         [] pr.pc = "pass" -> later + all + (Len(pr.nodes) + 1 - pr.ni) + 1
         [] pr.pc = "t_lock" -> later + queued + ReachabilityPolls + StoppedPolls + 5
         [] pr.pc = "t_donor" -> later + queued + ReachabilityPolls + StoppedPolls + 4
         [] pr.pc = "t_recipient" ->
                later + queued + (ReachabilityPolls - pr.reach) + StoppedPolls + 3
         [] pr.pc = "t_stop" -> later + queued + StoppedPolls + 3
         [] pr.pc = "t_wait" -> later + queued + (StoppedPolls - pr.waited) + 2
         [] pr.pc = "t_finish" -> later + queued + 2
         [] pr.pc = "t_unlock" -> later + queued + 1
         [] OTHER -> 0

Ended(pr) == pr.pc \in {"done", "crashed", "off"}

\* every step of a daemon that has not ended lowers StepsLeft, which is
\* never negative
C22_Decreases ==
    \A p \in Procs :
        /\ StepsLeft(proc[p]) >= 0
        /\ (proc'[p] # proc[p] /\ ~Ended(proc[p])) => StepsLeft(proc'[p]) < StepsLeft(proc[p])

\* C22: every invocation terminates: the number of steps a started daemon
\* has left, a bounded quantity, falls with each step it takes, so it reaches
\* the end of the script or ends with an exception; on the way each nodegroup is visited once, each (type, subnet)
\* pair is tried at most once per pass of an acquisition, and the
\* reachability poll and the wait-for-stopped poll stop after at most 60 and
\* 40 attempts, also when the recipient never becomes reachable or never
\* reaches stopped.
C22_Terminates ==
    /\ []C22_Bounded
    /\ [][C22_Decreases]_vars

\* an invocation has ended after a transplant whose recipient was polled 60
\* times for reachability and 40 times for stopped without reaching it
C22_Witness ==
    \E p \in Procs :
        LET pr == proc[p]
        IN /\ pr.pc = "done"
           /\ pr.recipient # None
           /\ inst[pr.recipient].state = "stopping"
           /\ Cardinality(PollCalls(pr, "describe_instance_status", pr.recipient))
                 = ReachabilityPolls
           /\ Cardinality(PollCalls(pr, "describe_instances", pr.recipient)) = StoppedPolls

\* ---------------------------------------------------------------------
\* C24.  One instance per acquisition
\* ---------------------------------------------------------------------

\* C24: in a pass, the run_instances calls made for a node return at most
\* one instance: after a call that returned an instance no further
\* run_instances call is made for the node, in the spot pass or in the
\* on-demand pass, also when the update that publishes the instance or the
\* hosts file update fails.
C24_OneInstancePerAcquisition ==
    \A p \in Procs : \A n \in NodeNames :
        \A j \in PassApi(proc[p], n, "run_instances") :
            proc[p].log[j].ok =>
                \A l \in PassApi(proc[p], n, "run_instances") : l <= j

\* ---------------------------------------------------------------------
\* C23.  When the acquisition engine is invoked
\* ---------------------------------------------------------------------

\* request_new_instances makes at least one run_instances call
Invoked(pr, n) == PassApi(pr, n, "run_instances") # {}

\* C23: in a sweep the acquisition engine is invoked for a node exactly when
\* the node is not linked (no comment, an empty InstanceId, or an InstanceId
\* that is not in the nodegroup's instance map), has POWERING_UP and is in
\* neither reset row; it is not invoked for a linked node.
C23_AcquisitionWhenUnlinkedPoweringUp ==
    \A p \in Procs : \A n \in NodeNames :
        LET pr == proc[p]
            na == pr.info[n]
        IN /\ Processed(pr, n) =>
                (Invoked(pr, n) <=>
                    (n \notin LinkedNodes(pr) /\ "POWERING_UP" \in na.State /\ ~ResetRow(na)))
           /\ Worked(pr, n) /\ Invoked(pr, n) =>
                n \notin LinkedNodes(pr) /\ "POWERING_UP" \in na.State

\* a pass has invoked the engine for a node whose comment names an instance
\* that is gone, and has left a linked node alone
C23_Witness ==
    \E p \in Procs : \E n \in NodeNames, m \in NodeNames :
        LET pr == proc[p]
        IN /\ Processed(pr, n) /\ Invoked(pr, n)
           /\ pr.info[n].HasComment /\ pr.info[n].InstanceId # None
           /\ Processed(pr, m) /\ m \in LinkedNodes(pr) /\ ~Invoked(pr, m)

\* ---------------------------------------------------------------------
\* C25.  An acquisition whose attempts all fail
\* ---------------------------------------------------------------------

\* the run_instances calls of the pass for node n, in the order made
RunSeq(pr, n) == SortedSeq(PassApi(pr, n, "run_instances"))

\* the calls follow the spot grid and then the on-demand grid from the first
\* (type, subnet) pair
FromFirstPair(pr, n) ==
    LET config == NodegroupAtts(NodegroupSeq[pr.gi])
        attempts == Attempts(config, get_instance_priority(config.Instances,
                                                           config.AllocationStrategy,
                                                           config.PurchasingOption))
        runs == RunSeq(pr, n)
    IN /\ Len(runs) <= Len(attempts)
       /\ \A j \in 1..Len(runs) : pr.log[runs[j]].att = attempts[j]
       /\ (\A j \in 1..Len(runs) : ~pr.log[runs[j]].ok) => Len(runs) = Len(attempts)

\* C25: when every run_instances call of an acquisition has failed, every
\* (type, subnet) pair of the spot grid and of the on-demand grid was tried,
\* the pass made no scheduler update and no hosts file update for the node,
\* and with a lone daemon the node record is as the sweep found it
\* (POWERING_UP, comment unchanged); in the next invocation the acquisition is
\* invoked for the node again and starts from the first (type, subnet) pair.
C25_FailedAcquisitionRetried ==
    \A p \in Procs : \A n \in NodeNames :
        LET pr == proc[p]
        IN /\ Worked(pr, n) /\ n \in Starved(pr) =>
                /\ FromFirstPair(pr, n)
                /\ PassEntries(pr, n) = PassApi(pr, n, "run_instances")
                /\ Solo(p) => /\ sched[n] = pr.info[n]
                            /\ "POWERING_UP" \in sched[n].State
           /\ Worked(pr, n) /\ Invoked(pr, n) => FromFirstPair(pr, n)
           /\ Processed(pr, n) /\ n \in pr.starved /\ Solo(p) =>
                Invoked(pr, n) /\ FromFirstPair(pr, n)

\* an invocation acquires an instance for a node whose acquisition failed at
\* every pair in the invocation before
C25_Witness ==
    \E p \in Procs : \E n \in NodeNames :
        /\ Processed(proc[p], n) /\ n \in proc[p].starved
        /\ \E j \in PassApi(proc[p], n, "run_instances") : proc[p].log[j].ok

\* ---------------------------------------------------------------------
\* C26.  A sweep whose instance enumeration failed
\* ---------------------------------------------------------------------

InstanceTerminatedKind == "state=POWER_DOWN_FORCE reason=instance_terminated"

\* C26: when describe_instances raised for the nodegroup, the pass treats no
\* node whose comment names an instance as unlinked: it clears no such
\* comment, issues no state=POWER_DOWN_FORCE reason=instance_terminated for
\* such a node and requests no new instance for it.
C26_FailedEnumerationSkipsReconciliation ==
    \A p \in Procs : \A n \in NodeNames :
        LET pr == proc[p]
        IN (/\ Worked(pr, n) /\ pr.enumfailed
            /\ pr.info[n].HasComment /\ pr.info[n].InstanceId # None) =>
                /\ PassApi(pr, n, "comment") = {}
                /\ PassApi(pr, n, InstanceTerminatedKind) = {}
                /\ ~Invoked(pr, n)

\* ---------------------------------------------------------------------
\* C27.  Who is scheduled for transplant
\* ---------------------------------------------------------------------

\* the nodes on the transplant list of the sweep
Scheduled(pr) == {pr.tp[j][1] : j \in 1..Len(pr.tp)}

AgeAsked(pr, n) ==
    /\ n \in LinkedNodes(pr)
    /\ ~ResetRow(pr.info[n]) /\ ~PoweredDownRow(pr.info[n])
    /\ pr.instances[pr.info[n].InstanceId].state = "stopped"
    /\ NodegroupAtts(NodegroupSeq[pr.eg]).HasMaxHibernationMin

\* C28: for a stopped instance whose StateTransitionReason holds no
\* parseable timestamp (no parentheses, empty parentheses, other text),
\* get_hibernation_time does not raise and gives age 0: the node is not put
\* on the transplant list and the sweep goes on.
C28_UnparseableReasonIsAgeZero ==
    \A p \in Procs : \A n \in NodeNames :
        LET pr == proc[p]
        IN (/\ Worked(pr, n) /\ AgeAsked(pr, n)
            /\ pr.instances[pr.info[n].InstanceId].reason.fmt # "ts") =>
                /\ pr.pc # "crashed"
                /\ n \notin Scheduled(pr)

\* ---------------------------------------------------------------------
\* C29.  Re-reads of the donor
\* ---------------------------------------------------------------------

DonorMutations == {"cancel_spot_instance_requests", "detach_volume",
                   "modify_network_interface_attribute", "terminate_instances"}

\* the donor of the transplant p is working on or has just left
Donor(pr) == pr.tp[pr.ti][2]

Steps(pr, n, api) ==
    {j \in 1..Len(pr.log) :
        pr.log[j].ph = "transplant" /\ pr.log[j].node = n /\ pr.log[j].api = api}

\* the calls of the function transplate_spot_to_od for node n: the weight
\* updates around it are the driver's
WorkflowCalls(pr, n) ==
    {j \in 1..Len(pr.log) :
        pr.log[j].ph = "transplant" /\ pr.log[j].node = n /\ pr.log[j].api # "weight"}

AllBefore(A, B) == \A j \in A, l \in B : j < l

\* the calls of api made before / after the recipient was requested
DonorSteps(pr, n, api) ==
    {j \in Steps(pr, n, api) : \A r \in Steps(pr, n, "run_instances") : j < r}
RecipientSteps(pr, n, api) ==
    {j \in Steps(pr, n, api) : \E r \in Steps(pr, n, "run_instances") : r < j}

\* C30: in every run of the transplant workflow the donor's volume detaches
\* and interface changes come before the donor's termination, run_instances
\* for the recipient after it, stop_instances after run_instances, the
\* detaches of the recipient's own volumes before the attaches, the attaches
\* before start_instances, delete_volume after start_instances, and
\* state=UNDRAIN after every other call of the workflow.
C30_TransplantCallOrder ==
    \A p \in Procs : \A n \in NodeNames :
        LET pr == proc[p]
        IN WorkflowCalls(pr, n) # {} =>
           /\ AllBefore(DonorSteps(pr, n, "detach_volume"), Steps(pr, n, "terminate_instances"))
           /\ AllBefore(DonorSteps(pr, n, "modify_network_interface_attribute"),
                        Steps(pr, n, "terminate_instances"))
           /\ Steps(pr, n, "terminate_instances") # {} =>
                 /\ DonorSteps(pr, n, "detach_volume") # {}
                 /\ DonorSteps(pr, n, "modify_network_interface_attribute") # {}
           /\ AllBefore(Steps(pr, n, "terminate_instances"), Steps(pr, n, "run_instances"))
           /\ Steps(pr, n, "run_instances") # {} => Steps(pr, n, "terminate_instances") # {}
           /\ AllBefore(Steps(pr, n, "run_instances"), Steps(pr, n, "stop_instances"))
           /\ Steps(pr, n, "stop_instances") # {} => Steps(pr, n, "run_instances") # {}
           /\ AllBefore(RecipientSteps(pr, n, "detach_volume"), Steps(pr, n, "attach_volume"))
           /\ Steps(pr, n, "attach_volume") # {} => RecipientSteps(pr, n, "detach_volume") # {}
           /\ AllBefore(Steps(pr, n, "attach_volume"), Steps(pr, n, "start_instances"))
           /\ Steps(pr, n, "start_instances") # {} => Steps(pr, n, "attach_volume") # {}
           /\ AllBefore(Steps(pr, n, "start_instances"), Steps(pr, n, "delete_volume"))
           /\ Steps(pr, n, "delete_volume") # {} => Steps(pr, n, "start_instances") # {}
           /\ \A u \in Steps(pr, n, "state=UNDRAIN") : \A j \in WorkflowCalls(pr, n) : j <= u

\* a workflow has run to its end: every call from the donor's detach to
\* state=UNDRAIN was made and succeeded
C30_Witness ==
    \E p \in Procs : \E n \in NodeNames :
        LET pr == proc[p]
        IN /\ pr.pc = "t_unlock"
           /\ Steps(pr, n, "state=UNDRAIN") # {}
           /\ Steps(pr, n, "delete_volume") # {}
           /\ \A j \in WorkflowCalls(pr, n) : pr.log[j].ok
           /\ inst[pr.recipient].state = "pending"

\* ---------------------------------------------------------------------
\* C31.  A donor-side step that fails before the donor's termination
\* ---------------------------------------------------------------------

\* the donor-side provider calls that precede the termination
DonorSideApis ==
    {"describe_spot_instance_requests", "detach_volume", "modify_network_interface_attribute"}

\* a donor-side step of the workflow for node n failed
DonorStepFailed(pr, n) ==
    \E api \in DonorSideApis : \E j \in DonorSteps(pr, n, api) : ~pr.log[j].ok

AfterWaitApis == {"detach_volume", "attach_volume", "start_instances", "delete_volume"}

\* the workflow for node n touched the recipient's or the donor's volumes or
\* started the recipient
RecipientTouched(pr, n) ==
    \E api \in AfterWaitApis : RecipientSteps(pr, n, api) # {}

LoggedOnlyApis == {"modify_network_interface_attribute", "detach_volume", "delete_volume"}

\* the calls of the workflow for node n, made for the recipient, that failed
\* among those of LoggedOnlyApis
LateFailures(pr, n) ==
    UNION {{j \in RecipientSteps(pr, n, api) : ~pr.log[j].ok} : api \in LoggedOnlyApis}

\* C33: when, after the recipient was hibernated, the call that resets
\* DeleteOnTermination on a recipient interface, a detach of a recipient
\* volume or a delete of a recipient volume has failed, the workflow still
\* makes the remaining calls (attach_volume, start_instances, delete_volume)
\* and issues state=UNDRAIN for the node after the failed call.
C33_LateFailuresDoNotStop ==
    \A p \in Procs : \A n \in NodeNames :
        LET pr == proc[p]
        IN \A j \in LateFailures(pr, n) :
              /\ Steps(pr, n, "attach_volume") # {}
              /\ Steps(pr, n, "start_instances") # {}
              /\ Steps(pr, n, "delete_volume") # {}
              /\ \E u \in Steps(pr, n, "state=UNDRAIN") : u > j /\ pr.log[u].ok

\* a workflow in which a call after the hibernation failed has ended, and the
\* scheduler holds the node without DRAIN
C33_Witness ==
    \E p \in Procs : \E n \in NodeNames :
        /\ proc[p].pc = "t_unlock"
        /\ LateFailures(proc[p], n) # {}
        /\ Steps(proc[p], n, "state=UNDRAIN") # {}
        /\ "DRAIN" \notin sched[n].State

\* ---------------------------------------------------------------------
\* C34.  Orphan cleanup next to another daemon
\* ---------------------------------------------------------------------

\* the instances p has terminated as orphans in its current invocation
OrphansTerminated(pr) ==
    {pr.log[j].tgt : j \in {l \in 1..Len(pr.log) :
                               /\ pr.log[l].ph = "orphan_instances"
                               /\ pr.log[l].api = "terminate_instances"
                               /\ pr.log[l].ok}}

\* the instances the acquisitions of q linked to a node in passes that are
\* over: q has left the nodegroup's lock since
LinkedUnderLock(q) ==
    {proc[q].log[j].tgt : j \in {l \in 1..Len(proc[q].log) :
                                   /\ proc[q].log[l].ph = "pass"
                                   /\ proc[q].log[l].api = "run_instances"
                                   /\ proc[q].log[l].ok
                                   /\ lock[NodegroupSeq[proc[q].log[l].g]] # q}}

\* C34: with two daemons running, no instance that the comment of a node
\* names in the scheduler's current state has been terminated as an orphan,
\* and no instance that the other daemon linked to a node before it released
\* the nodegroup's lock has been terminated as an orphan.
C34_LinkedInstanceNotOrphaned ==
    \A p \in Procs :
        ~Solo(p) =>
            /\ \A n \in NodeNames : sched[n].InstanceId \notin OrphansTerminated(proc[p])
            /\ \A q \in Procs \ {p} : LinkedUnderLock(q) \cap OrphansTerminated(proc[p]) = {}

\* ---------------------------------------------------------------------
\* C35.  The nodes a nodegroup's sweep works on
\* ---------------------------------------------------------------------

Ordinals == {"0", "1"}

\* n is named <partition>-<nodegroup>-<ordinal> for the nodegroup g
Belongs(n, g) == \E k \in Ordinals : n = NodeName(g, k)

\* C35: the nodes that the sweep of a nodegroup has read, and the nodes for
\* which its pass has made a scheduler or provider call, are nodes of that
\* nodegroup, also when another nodegroup's name begins with its name.
C35_SweepStaysInNodegroup ==
    \A p \in Procs :
        LET pr == proc[p]
        IN /\ pr.pc = "pass" =>
                \A i \in 1..Len(pr.nodes) : Belongs(pr.nodes[i], NodegroupSeq[pr.gi])
           /\ \A j \in 1..Len(pr.log) :
                pr.log[j].ph = "pass" /\ pr.log[j].node # NoNode
                    => Belongs(pr.log[j].node, NodegroupSeq[pr.log[j].g])

\* ---------------------------------------------------------------------
\* C36.  One transplant at a time for a node
\* ---------------------------------------------------------------------

ScheduledDonors(pr) == {pr.tp[j][2] : j \in 1..Len(pr.tp)}

TerminatedWithSpot(pr) ==
    {pr.log[j].tgt : j \in {l \in 1..Len(pr.log) :
                               /\ pr.log[l].ph = "orphan_spot"
                               /\ pr.log[l].api = "terminate_instances"}}

\* C38: the loop over the orphan spot requests makes no terminate_instances
\* call for an instance that the comment of a node names, in the node data
\* of the sweep or in the scheduler's current state.
C38_CancelSpotSparesLinked ==
    \A p \in Procs :
        /\ proc[p].cleaned =>
              Targets(proc[p], {"orphan_spot"}, "terminate_instances")
                 \cap ReferencedInstances(proc[p]) = {}
        /\ \A n \in NodeNames : sched[n].InstanceId \notin TerminatedWithSpot(proc[p])

\* ---------------------------------------------------------------------
\* C39.  The hibernation age over a day and more
\* ---------------------------------------------------------------------

\* the module level names a process holds once the transplant loop has run
BoundNames == {"node_name", "instance_id"}

\* the instance was stopped at a time the host's clock agrees with
Timed(ia) == ia.state = "stopped" /\ ia.reason.fmt = "ts" /\ ia.reason.off = 0

-----------------------------------------------------------------------------
(* A failed termination of a powered down node's instance *)

\* the pass called terminate_instances for instance id, linked to node n,
\* and the call failed
FailedRelease(pr, n, id) ==
    \E j \in PassEntries(pr, n) :
        pr.log[j].api = "terminate_instances" /\ pr.log[j].tgt = id /\ ~pr.log[j].ok

\* the instances the nodes are linked to at the start
LinkedAtStart == {i \in Ids : i <= Cardinality(NodeNames)}

\* C40: when terminate_instances failed for the instance linked to a powered
\* down node, cron still has a sweep to start and the provider answers every
\* later call, the instance is terminated eventually.
C40_FailedReleaseRetried ==
    \A n \in NodeNames : \A id \in LinkedAtStart :
        (/\ FailedRelease(proc["d1"], n, id)
         /\ faults = 0
         /\ proc["d1"].runs < proc["d1"].maxruns)
          ~> (inst[id].state = "terminated")

\* a later sweep, after a sweep with a failed call, has terminated as an
\* orphan an instance that a node was linked to at the start, and the node
\* is POWERED_DOWN with an empty comment
C40_Witness ==
    \E id \in LinkedAtStart : \E n \in NodeNames :
        LET pr == proc["d1"]
        IN /\ pr.runs >= 2 /\ pr.prevfailed
           /\ \E j \in 1..Len(pr.log) :
                /\ pr.log[j].ph = "orphan_instances"
                /\ pr.log[j].api = "terminate_instances"
                /\ pr.log[j].tgt = id /\ pr.log[j].ok
           /\ inst[id].state = "terminated"
           /\ inst[id].ng = nodegroup_prefix(NodegroupSeq[pr.eg])
           /\ StartsWith(n, inst[id].ng)
           /\ "POWERED_DOWN" \in sched[n].State /\ sched[n].InstanceId = None

====
